---- MODULE Spec2Model ----
(***************************************************************************)
(* The table views of the college-football dashboard (games, teams,        *)
(* conferences and the two rankings tables): the filter -> sort ->         *)
(* paginate pipeline each view computes from its fetched collections, the  *)
(* handlers that change its query state, and the conference view's         *)
(* aggregation of teams, games and rankings.                               *)
(*                                                                         *)
(* Encodings.  A JSON value is a record [t, n, d, s]: t is its type        *)
(* ("null" stands for both null and undefined, which every use in the      *)
(* source treats alike through ??, == null or truthiness), n/d is the      *)
(* number as a fraction in lowest terms, s is the string as a sequence of  *)
(* UTF-16 code units.  A fetched record is a function from field names to  *)
(* values; a field that is absent reads as null.                           *)
(***************************************************************************)
EXTENDS Integers, Sequences, FiniteSets, Bags, TLC

(***************************************************************************)
(* Bounds of the model.                                                    *)
(***************************************************************************)
\* longest response of an endpoint
MaxRows == 2
\* page sizes: the model's tables hold a few rows, so the initial page size
\* (25 in the source) and the sizes of the page-size select (10, 25, 50,
\* 100) are scaled down to InitialPageSize and 1..MaxPageSize
InitialPageSize == 1
MaxPageSize == 2
\* longest input of the sort checked on its own
MaxSortLen == 4
\* longest table and largest page size of the pagination checked on its own
MaxCount == 5
MaxPagedSize == 3
\* longest team and game lists of the aggregation checked on its own
MaxTeams == 3
MaxGames == 2
\* the fetches checked as a process: longest response, and calls of load
\* functions in flight at once
MaxFetched == 1
MaxInFlight == 3
\* longest ranking list of the ranking lookup checked on its own
MaxLookupLen == 3
MaxFilterLen == 3

(***************************************************************************)
(* Values.                                                                 *)
(***************************************************************************)
Null == [t |-> "null", n |-> 0, d |-> 1, s |-> <<>>]
NaN == [t |-> "nan", n |-> 0, d |-> 1, s |-> <<>>]
Num(x) == [t |-> "num", n |-> x, d |-> 1, s |-> <<>>]
Str(x) == [t |-> "str", n |-> 0, d |-> 1, s |-> x]

Abs(x) == IF x < 0 THEN -x ELSE x

RECURSIVE Gcd(_, _)
Gcd(a, b) == IF b = 0 THEN a ELSE Gcd(b, a % b)

\* the number a / b (b > 0) of a JS division of two integers
Div(a, b) ==
    LET g == Gcd(Abs(a), b)
    IN [t |-> "num", n |-> a \div g, d |-> b \div g, s |-> <<>>]

Sign(x) == IF x < 0 THEN -1 ELSE IF x > 0 THEN 1 ELSE 0

\* sign of a - b for two numbers
NumCmp(a, b) == Sign(a.n * b.d - b.n * a.d)

IsNull(v) == v.t = "null"

\* a[key]: a missing property reads as undefined
Field(r, k) == IF k \in DOMAIN r THEN r[k] ELSE Null

\* x ?? y
Coalesce(x, y) == IF IsNull(x) THEN y ELSE x

\* JS truthiness of a value: null, 0, NaN and '' are falsy
Truthy(v) ==
    CASE v.t = "null" -> FALSE
      [] v.t = "nan" -> FALSE
      [] v.t = "num" -> v.n # 0
      [] v.t = "str" -> v.s # <<>>

\* x || y
OrElse(x, y) == IF Truthy(x) THEN x ELSE y

(***************************************************************************)
(* Strings: sequences of code units.                                       *)
(***************************************************************************)
LowerChar(c) == IF c >= 65 /\ c <= 90 THEN c + 32 ELSE c

ToLowerCase(s) == [i \in 1..Len(s) |-> LowerChar(s[i])]

IsSpace(c) == c = 32

RECURSIVE TrimStart(_)
TrimStart(s) ==
    IF s # <<>> /\ IsSpace(Head(s)) THEN TrimStart(Tail(s)) ELSE s

RECURSIVE TrimEnd(_)
TrimEnd(s) ==
    IF s # <<>> /\ IsSpace(s[Len(s)])
    THEN TrimEnd(SubSeq(s, 1, Len(s) - 1))
    ELSE s

Trim(s) == TrimEnd(TrimStart(s))

\* haystack.includes(q)
Includes(h, q) ==
    \E i \in 0..(Len(h) - Len(q)) : SubSeq(h, i + 1, i + Len(q)) = q

\* a < b on strings: lexicographic on code units
RECURSIVE StrLess(_, _)
StrLess(a, b) ==
    IF b = <<>> THEN FALSE
    ELSE IF a = <<>> THEN TRUE
    ELSE IF Head(a) # Head(b) THEN Head(a) < Head(b)
    ELSE StrLess(Tail(a), Tail(b))

RECURSIVE Digits(_)
Digits(k) ==
    IF k < 10 THEN <<48 + k>> ELSE Append(Digits(k \div 10), 48 + (k % 10))

\* String(v) for null-coalesced v: integers print in decimal
ToStr(v) ==
    CASE v.t = "str" -> v.s
      [] v.t = "num" -> IF v.n < 0 THEN <<45>> \o Digits(-v.n) ELSE Digits(v.n)
      [] v.t = "nan" -> <<78, 97, 78>>
      [] v.t = "null" -> <<110, 117, 108, 108>>

IsDigits(s) == s # <<>> /\ \A i \in 1..Len(s) : s[i] >= 48 /\ s[i] <= 57

RECURSIVE DigitsValue(_)
DigitsValue(s) ==
    IF s = <<>> THEN 0
    ELSE 10 * DigitsValue(SubSeq(s, 1, Len(s) - 1)) + (s[Len(s)] - 48)

\* Number(v): '' converts to 0, a string of digits to its value, any other
\* string to NaN
ToNumber(v) ==
    CASE v.t = "num" -> v
      [] v.t = "str" -> IF v.s = <<>> THEN Num(0)
                        ELSE IF IsDigits(v.s) THEN Num(DigitsValue(v.s))
                        ELSE NaN
      [] v.t = "nan" -> NaN
      [] v.t = "null" -> Num(0)

\* Array.prototype.join(' ') of a list of strings
RECURSIVE JoinSpace(_)
JoinSpace(parts) ==
    IF parts = <<>> THEN <<>>
    ELSE IF Len(parts) = 1 THEN parts[1]
    ELSE parts[1] \o <<32>> \o JoinSpace(Tail(parts))

\* seq.filter(P) for a set of accepted elements
RECURSIVE FilterSeq(_, _)
FilterSeq(seq, keep) ==
    IF seq = <<>> THEN <<>>
    ELSE IF Head(seq) \in keep
         THEN <<Head(seq)>> \o FilterSeq(Tail(seq), keep)
         ELSE FilterSeq(Tail(seq), keep)

Reverse(seq) == [i \in 1..Len(seq) |-> seq[Len(seq) + 1 - i]]

Range(seq) == {seq[i] : i \in 1..Len(seq)}

\* all sequences over S of length at most n
SeqsUpTo(S, n) == UNION {[1..k -> S] : k \in 0..n}

(***************************************************************************)
(* String literals of the source.                                          *)
(***************************************************************************)
ALL == <<65, 76, 76>>
Independent == <<73, 110, 100, 101, 112, 101, 110, 100, 101, 110, 116>>
ConfX == <<88>>
ConfY == <<89>>

(***************************************************************************)
(* Dates.  A timestamp is counted in hours since the epoch.  Date strings   *)
(* are the ones the modelled responses carry; any other string fails to    *)
(* parse.                                                                  *)
(***************************************************************************)
DSep1 == <<50, 48, 50, 52, 45, 48, 57, 45, 48, 49>>
DSep1Eve == DSep1 \o <<84, 49, 56, 58, 48, 48, 90>>
DSep8 == <<50, 48, 50, 52, 45, 48, 57, 45, 48, 56>>
DEpoch == <<49, 57, 55, 48, 45, 48, 49, 45, 48, 49>>
DBad == <<84, 66, 68>>

\* new Date(raw).getTime() for a string or a number
DateGetTime(raw) ==
    CASE raw.t = "num" -> raw
      [] raw.t = "str" /\ raw.s = DSep1 -> Num(479208)
      [] raw.t = "str" /\ raw.s = DSep1Eve -> Num(479226)
      [] raw.t = "str" /\ raw.s = DSep8 -> Num(479376)
      [] raw.t = "str" /\ raw.s = DEpoch -> Num(0)
      [] OTHER -> NaN

\* d.toISOString().slice(0, 10) of a valid timestamp
IsoDay(ts) ==
    LET day == ts.n \div 24
    IN CASE day = 19967 -> DSep1
         [] day = 19974 -> DSep8
         [] day = 0 -> DEpoch

(***************************************************************************)
(* State.  view names the mounted view; each view owns its own refs, so    *)
(* one set of variables stands for the refs of the mounted view.           *)
(*   teamsRaw, gamesRaw, rankingsRaw   the fetched collections             *)
(*     (gamesRaw is allGames in the conference view)                       *)
(*   searchQuery .. pageSize           the query state                     *)
(*   last                              an observer of the query-state      *)
(*     handlers: which kind of handler ran last (a watched input changed,  *)
(*     changeSort flipped the direction, changeSort selected a key) and    *)
(*     the page and direction it found                                     *)
(*   phase, result                     the input/output of the pure        *)
(*     computations that are checked on their own (sort, aggregation)      *)
(*   loading, error, gamesLoading, gamesError   the refs of those names    *)
(*   inFlight                          the bag of the calls of load        *)
(*     functions that await their responses, each with what the            *)
(*     collections it fetches held when it began                           *)
(*   heldKind                          per endpoint, the kind of value its *)
(*     collection ref holds: "array" (the items are in teamsRaw, gamesRaw  *)
(*     or rankingsRaw) or the kind of a value that is not an array         *)
(*   cycle, history                    observers of the fetch cycles: what *)
(*     began the current cycle (the mount or a Refresh or Retry click)     *)
(*     and, per endpoint, whether the collection was filled by a fetch of  *)
(*     the current cycle or an earlier one, and what became of the fetch   *)
(*     the current cycle issued (not issued, pending, rejected, answered   *)
(*     with a status that is not 2xx, or answered 2xx with an array or     *)
(*     with another JSON value)                                            *)
(***************************************************************************)
VARIABLES view, teamsRaw, gamesRaw, rankingsRaw,
          searchQuery, selectedConference, selectedDate, selectedTeamId,
          sortKey, sortDirection, currentPage, pageSize,
          last, phase, result,
          loading, error, gamesLoading, gamesError, inFlight, heldKind,
          cycle, history

vars == <<view, teamsRaw, gamesRaw, rankingsRaw,
          searchQuery, selectedConference, selectedDate, selectedTeamId,
          sortKey, sortDirection, currentPage, pageSize, last, phase,
          result, loading, error, gamesLoading, gamesError, inFlight,
          heldKind, cycle, history>>

dataVars == <<teamsRaw, gamesRaw, rankingsRaw>>
filterVars == <<searchQuery, selectedConference, selectedDate, selectedTeamId>>
fetchVars == <<loading, error, gamesLoading, gamesError, inFlight, heldKind,
               cycle, history>>

Endpoints == {"teams", "games", "ranker"}

\* error.value = null
NoError == [name |-> "null", label |-> "", status |-> 0, statusText |-> ""]

\* nothing is loading, nothing has failed, nothing has been fetched
FetchIdle ==
    /\ loading = FALSE
    /\ error = NoError
    /\ gamesLoading = FALSE
    /\ gamesError = NoError
    /\ inFlight = EmptyBag
    /\ heldKind = [e \in Endpoints |-> "array"]
    /\ cycle = "none"
    /\ history = [e \in Endpoints |->
                    [origin |-> "none", current |-> "unissued"]]

Views == {"games", "teams", "conferences", "rankings", "ratings"}
Directions == {"asc", "desc"}

(***************************************************************************)
(* Maps (new Map()): functions from keys to entries.                       *)
(***************************************************************************)
EmptyMap == [k \in {} |-> Null]
MapHas(m, k) == k \in DOMAIN m
MapSet(m, k, v) == [x \in DOMAIN m \cup {k} |-> IF x = k THEN v ELSE m[x]]

(***************************************************************************)
(* Sort stage.                                                             *)
(***************************************************************************)
NumericSortKeys(v) ==
    CASE v = "games" -> {}
      [] v = "teams" -> {"team_id"}
      [] v = "conferences" ->
            {"numTeams", "avgRank", "avgPointDiff", "avgPointsFor"}
      [] v = "rankings" ->
            {"rank", "wins", "losses", "games", "win_pct",
             "sos_tough_opponents", "sos_score",
             "home_field_equal_team_win_prob"}
      [] v = "ratings" ->
            {"ranking", "wins", "losses", "games", "win_pct", "rating",
             "base_rating"}

\* the column headers wired to changeSort in each view's template
SortKeys(v) ==
    CASE v = "games" -> {"game_date", "home_team_id", "away_team_id"}
      [] v = "teams" -> {"team_name", "mascot", "conference", "team_id"}
      [] v = "conferences" ->
            {"conference", "numTeams", "avgRank", "avgPointDiff",
             "avgPointsFor"}
      [] v = "rankings" ->
            {"rank", "team_name", "conference", "wins", "win_pct",
             "home_field_equal_team_win_prob", "sos_tough_opponents",
             "sos_score"}
      [] v = "ratings" ->
            {"ranking", "team_name", "conference", "wins", "win_pct",
             "rating", "base_rating"}

InitialSortKey(v) ==
    CASE v = "games" -> "game_date"
      [] v = "teams" -> "team_name"
      [] v = "conferences" -> "conference"
      [] v = "rankings" -> "rank"
      [] v = "ratings" -> "rating"

InitialSortDirection(v) ==
    CASE v = "games" -> "desc"
      [] v = "teams" -> "asc"
      [] v = "conferences" -> "asc"
      [] v = "rankings" -> "asc"
      [] v = "ratings" -> "desc"

\* g.game_date || g.date || g.gameDate
GameDateRaw(g) ==
    OrElse(OrElse(Field(g, "game_date"), Field(g, "date")),
           Field(g, "gameDate"))

\* new Date(raw || 0).getTime()
GameTime(g) == DateGetTime(OrElse(GameDateRaw(g), Num(0)))

\* aVal / bVal read without the fallback of the rank key
SortValueNoFallback(v, key, r) == Field(r, key)

\* aVal / bVal of the comparator
SortValue(v, key, r) ==
    IF v = "rankings" /\ key = "rank"
    THEN Coalesce(Field(r, "rank"), Num(9999))
    ELSE IF v = "ratings" /\ key = "ranking"
    THEN Coalesce(Field(r, "ranking"),
                  Coalesce(Field(r, "rank"), Num(9999)))
    ELSE Field(r, key)

\* a comparator that orders 'desc' like 'asc'
ComparatorIgnoresDirection(v, key, dir, a, b) ==
    IF v = "games" /\ key = "game_date"
    THEN LET aTime == GameTime(a)
             bTime == GameTime(b)
         IN IF aTime.t = "nan" \/ bTime.t = "nan" THEN NaN
            ELSE Num(NumCmp(aTime, bTime))
    ELSE IF key \in NumericSortKeys(v)
    THEN LET aNum == ToNumber(Coalesce(SortValue(v, key, a), Num(0)))
             bNum == ToNumber(Coalesce(SortValue(v, key, b), Num(0)))
         IN IF aNum.t = "nan" \/ bNum.t = "nan" THEN NaN
            ELSE Num(NumCmp(aNum, bNum))
    ELSE LET aStr == ToLowerCase(ToStr(Coalesce(SortValue(v, key, a), Str(<<>>))))
             bStr == ToLowerCase(ToStr(Coalesce(SortValue(v, key, b), Str(<<>>))))
         IN IF aStr = bStr THEN Num(0)
            ELSE IF StrLess(aStr, bStr) THEN Num(-1) ELSE Num(1)

\* the value the comparator function returns: Num(-1), Num(0), Num(1)
\* (only the sign of a difference matters to the sort) or NaN
Comparator(v, key, dir, a, b) ==
    IF v = "games" /\ key = "game_date"
    THEN LET aTime == GameTime(a)
             bTime == GameTime(b)
         IN IF aTime.t = "nan" \/ bTime.t = "nan" THEN NaN
            ELSE IF dir = "asc" THEN Num(NumCmp(aTime, bTime))
            ELSE Num(NumCmp(bTime, aTime))
    ELSE IF key \in NumericSortKeys(v)
    THEN LET aNum == ToNumber(Coalesce(SortValue(v, key, a), Num(0)))
             bNum == ToNumber(Coalesce(SortValue(v, key, b), Num(0)))
         IN IF aNum.t = "nan" \/ bNum.t = "nan" THEN NaN
            ELSE IF dir = "asc" THEN Num(NumCmp(aNum, bNum))
            ELSE Num(NumCmp(bNum, aNum))
    ELSE LET aStr == ToLowerCase(ToStr(Coalesce(SortValue(v, key, a), Str(<<>>))))
             bStr == ToLowerCase(ToStr(Coalesce(SortValue(v, key, b), Str(<<>>))))
         IN IF aStr = bStr THEN Num(0)
            ELSE IF dir = "asc"
                 THEN (IF StrLess(aStr, bStr) THEN Num(-1) ELSE Num(1))
                 ELSE (IF StrLess(bStr, aStr) THEN Num(-1) ELSE Num(1))

\* Array.prototype.sort's reading of the comparator: NaN counts as +0
SortCompare(v, key, dir, a, b) ==
    LET c == Comparator(v, key, dir, a, b)
    IN IF c.t = "nan" THEN 0 ELSE c.n

\* ECMAScript's "consistent comparator" over the records being sorted
ConsistentComparator(v, key, dir, rows) ==
    LET S == Range(rows)
        C(a, b) == SortCompare(v, key, dir, a, b)
    IN /\ \A a \in S : C(a, a) = 0
       /\ \A a, b \in S : Sign(C(a, b)) = -Sign(C(b, a))
       /\ \A a, b, c \in S :
             /\ (C(a, b) = 0 /\ C(b, c) = 0) => C(a, c) = 0
             /\ (C(a, b) < 0 /\ C(b, c) < 0) => C(a, c) < 0
             /\ (C(a, b) > 0 /\ C(b, c) > 0) => C(a, c) > 0

\* x placed behind every record that does not sort after it
RECURSIVE InsertStable(_, _, _, _, _)
InsertStable(v, key, dir, x, sorted) ==
    IF sorted = <<>> THEN <<x>>
    ELSE IF SortCompare(v, key, dir, x, Head(sorted)) < 0
         THEN <<x>> \o sorted
         ELSE <<Head(sorted)>> \o InsertStable(v, key, dir, x, Tail(sorted))

\* the one order a stable sort gives under a consistent comparator
RECURSIVE StableSort(_, _, _, _)
StableSort(v, key, dir, rows) ==
    IF rows = <<>> THEN <<>>
    ELSE InsertStable(v, key, dir, rows[Len(rows)],
                      StableSort(v, key, dir, SubSeq(rows, 1, Len(rows) - 1)))

Orderings(rows) ==
    LET n == Len(rows)
    IN {[i \in 1..n |-> rows[p[i]]] :
            p \in {q \in [1..n -> 1..n] : \A i, j \in 1..n : i # j => q[i] # q[j]}}

\* [...rows].sort(comparator): stable under a consistent comparator; the
\* order is implementation-defined otherwise
SortOutcomes(v, key, dir, rows) ==
    IF ConsistentComparator(v, key, dir, rows)
    THEN {StableSort(v, key, dir, rows)}
    ELSE Orderings(rows)

(***************************************************************************)
(* Filter stage.                                                           *)
(***************************************************************************)
\* teamById of the games view: team_id -> team, last write wins
RECURSIVE TeamByIdFrom(_, _)
TeamByIdFrom(teams, m) ==
    IF teams = <<>> THEN m
    ELSE LET t == Head(teams)
         IN TeamByIdFrom(Tail(teams),
                IF ~IsNull(Field(t, "team_id"))
                THEN MapSet(m, Field(t, "team_id"), t)
                ELSE m)

TeamById(teams) == TeamByIdFrom(teams, EmptyMap)

\* teamById.get(id)?.conference
ConferenceOfId(byId, id) ==
    IF MapHas(byId, id) THEN Field(byId[id], "conference") ELSE Null

NormalizeDateString(raw) ==
    IF ~Truthy(raw) THEN <<>>
    ELSE LET d == DateGetTime(raw)
         IN IF d.t = "nan" THEN <<>> ELSE IsoDay(d)

FilteredGames(games, teams, dateFilter, conf, teamId) ==
    LET byId == TeamById(teams)
        Keep(g) ==
            /\ dateFilter # <<>> =>
                  NormalizeDateString(GameDateRaw(g)) = dateFilter
            /\ conf # ALL =>
                  \/ ConferenceOfId(byId, Field(g, "home_team_id")) = Str(conf)
                  \/ ConferenceOfId(byId, Field(g, "away_team_id")) = Str(conf)
            /\ teamId # 0 =>
                  \/ Field(g, "home_team_id") = Num(teamId)
                  \/ Field(g, "away_team_id") = Num(teamId)
    IN SelectSeq(games, Keep)

\* [team_name, mascot, conference].filter(Boolean).join(' ').toLowerCase()
Haystack(team) ==
    LET fields == <<Field(team, "team_name"), Field(team, "mascot"),
                    Field(team, "conference")>>
        IsTruthy(x) == Truthy(x)
        kept == SelectSeq(fields, IsTruthy)
    IN ToLowerCase(JoinSpace([i \in 1..Len(kept) |-> ToStr(kept[i])]))

\* a variant that drops the first record it keeps
FilteredTeamsDropsFirst(rows, query, conf) ==
    LET q == ToLowerCase(Trim(query))
        Keep(team) ==
            /\ conf # ALL => Field(team, "conference") = Str(conf)
            /\ q # <<>> => Includes(Haystack(team), q)
        kept == SelectSeq(rows, Keep)
    IN IF kept = <<>> THEN <<>> ELSE Tail(kept)

\* filteredTeams of the teams view and of both rankings views
FilteredTeams(rows, query, conf) ==
    LET q == ToLowerCase(Trim(query))
        Keep(team) ==
            /\ conf # ALL => Field(team, "conference") = Str(conf)
            /\ q # <<>> => Includes(Haystack(team), q)
    IN SelectSeq(rows, Keep)

FilteredConferences(rows, query, confFilter) ==
    LET q == ToLowerCase(Trim(query))
        Keep(row) ==
            /\ confFilter # ALL => row.conference = Str(confFilter)
            /\ q # <<>> => Includes(ToLowerCase(row.conference.s), q)
    IN SelectSeq(rows, Keep)

(***************************************************************************)
(* Pagination stage.                                                       *)
(***************************************************************************)
Max(a, b) == IF a > b THEN a ELSE b
Min(a, b) == IF a < b THEN a ELSE b

\* Math.ceil(a / b) for a >= 0, b >= 1
CeilDiv(a, b) == (a + b - 1) \div b

\* a page count that rounds down
TotalPagesFloor(v, count, size) == Max(1, count \div size)

\* Math.max(1, Math.ceil((count || 1) / pageSize)) in the games, teams and
\* conference views; Math.max(1, Math.ceil(count / pageSize || 1)) in the
\* rankings views
TotalPagesOf(v, count, size) ==
    IF v \in {"rankings", "ratings"}
    THEN Max(1, IF count = 0 THEN 1 ELSE CeilDiv(count, size))
    ELSE Max(1, CeilDiv(IF count = 0 THEN 1 ELSE count, size))

\* rows.slice(start, end)
Slice(rows, start, end) ==
    SubSeq(rows, Min(start, Len(rows)) + 1, Min(end, Len(rows)))

\* a slice that starts one page too far
PaginatedSkipsFirst(rows, page, size) ==
    Slice(rows, page * size, page * size + size)

\* the page a view renders
PaginatedOf(rows, page, size) ==
    LET start == (page - 1) * size
        end == start + size
    IN Slice(rows, start, end)

(***************************************************************************)
(* Conference view: joins and aggregation.                                 *)
(***************************************************************************)
\* rankingByTeamId: (team_id ?? id) -> { rank: rank ?? null }
RECURSIVE RankingByTeamIdFrom(_, _)
RankingByTeamIdFrom(rankings, m) ==
    IF rankings = <<>> THEN m
    ELSE LET r == Head(rankings)
             id == Coalesce(Field(r, "team_id"), Field(r, "id"))
         IN RankingByTeamIdFrom(Tail(rankings),
                IF ~IsNull(id)
                THEN MapSet(m, id, [rank |-> Field(r, "rank")])
                ELSE m)

RankingByTeamId(rankings) == RankingByTeamIdFrom(rankings, EmptyMap)

\* teamsWithRank: every team with the rank joined in, null when none
TeamsWithRank(teams, rankings) ==
    LET byId == RankingByTeamId(rankings)
        RankOf(t) ==
            IF MapHas(byId, Field(t, "team_id"))
            THEN byId[Field(t, "team_id")].rank
            ELSE Null
    IN [i \in 1..Len(teams) |->
            [k \in DOMAIN teams[i] \cup {"rank"} |->
                IF k = "rank" THEN RankOf(teams[i]) ELSE teams[i][k]]]

\* teamConferenceById: team_id -> conference, for teams that have both
RECURSIVE TeamConferenceByIdFrom(_, _)
TeamConferenceByIdFrom(teams, m) ==
    IF teams = <<>> THEN m
    ELSE LET t == Head(teams)
         IN TeamConferenceByIdFrom(Tail(teams),
                IF ~IsNull(Field(t, "team_id")) /\ Truthy(Field(t, "conference"))
                THEN MapSet(m, Field(t, "team_id"), Field(t, "conference"))
                ELSE m)

TeamConferenceById(teams) == TeamConferenceByIdFrom(teams, EmptyMap)

\* g.home_score ?? g.home_points, g.away_score ?? g.away_points
HomeScore(g) == Coalesce(Field(g, "home_score"), Field(g, "home_points"))
AwayScore(g) == Coalesce(Field(g, "away_score"), Field(g, "away_points"))

\* the early returns without the check of the away score
HasIdsAndHomeScore(g) ==
    /\ ~IsNull(Field(g, "home_team_id"))
    /\ ~IsNull(Field(g, "away_team_id"))
    /\ ~IsNull(HomeScore(g))

\* the two early returns shared by both roll-ups
HasIdsAndScores(g) ==
    /\ ~IsNull(Field(g, "home_team_id"))
    /\ ~IsNull(Field(g, "away_team_id"))
    /\ ~IsNull(HomeScore(g))
    /\ ~IsNull(AwayScore(g))

\* ensureTeam(id), then pointsFor += points and games += 1
AddTeamGame(stats, id, points) ==
    LET s == IF MapHas(stats, id) THEN stats[id]
             ELSE [pointsFor |-> 0, games |-> 0]
    IN MapSet(stats, id,
              [pointsFor |-> s.pointsFor + points, games |-> s.games + 1])

\* teamGameStats: team_id -> { pointsFor, games }
RECURSIVE TeamGameStatsFrom(_, _)
TeamGameStatsFrom(games, stats) ==
    IF games = <<>> THEN stats
    ELSE LET g == Head(games)
         IN TeamGameStatsFrom(Tail(games),
                IF HasIdsAndScores(g)
                THEN AddTeamGame(
                        AddTeamGame(stats, Field(g, "home_team_id"),
                                    HomeScore(g).n),
                        Field(g, "away_team_id"), AwayScore(g).n)
                ELSE stats)

TeamGameStats(games) == TeamGameStatsFrom(games, EmptyMap)

\* getTeamAvgPoints(teamId)
GetTeamAvgPoints(games, teamId) ==
    LET stats == TeamGameStats(games)
    IN IF IsNull(teamId) THEN Null
       ELSE IF ~MapHas(stats, teamId) \/ stats[teamId].games = 0 THEN Null
       ELSE Div(stats[teamId].pointsFor, stats[teamId].games)

\* a credit of the size of the margin, whoever won
AddConfGameUnsigned(stats, conf, margin) ==
    LET s == IF MapHas(stats, conf) THEN stats[conf]
             ELSE [totalMargin |-> 0, games |-> 0]
    IN MapSet(stats, conf,
              [totalMargin |-> s.totalMargin + Abs(margin),
               games |-> s.games + 1])

\* a credit of the margin that leaves the games count alone
AddConfGameUncounted(stats, conf, margin) ==
    LET s == IF MapHas(stats, conf) THEN stats[conf]
             ELSE [totalMargin |-> 0, games |-> 0]
    IN MapSet(stats, conf,
              [totalMargin |-> s.totalMargin + margin, games |-> s.games])

\* ensureConf(conf), then totalMargin += margin and games += 1
AddConfGame(stats, conf, margin) ==
    LET s == IF MapHas(stats, conf) THEN stats[conf]
             ELSE [totalMargin |-> 0, games |-> 0]
    IN MapSet(stats, conf,
              [totalMargin |-> s.totalMargin + margin, games |-> s.games + 1])

\* conferenceGameStats: conference -> { totalMargin, games }
RECURSIVE ConferenceGameStatsFrom(_, _, _)
ConferenceGameStatsFrom(games, confById, stats) ==
    IF games = <<>> THEN stats
    ELSE LET g == Head(games)
             homeId == Field(g, "home_team_id")
             awayId == Field(g, "away_team_id")
             known == /\ HasIdsAndScores(g)
                      /\ MapHas(confById, homeId)
                      /\ MapHas(confById, awayId)
         IN ConferenceGameStatsFrom(Tail(games), confById,
                IF known /\ confById[homeId] # confById[awayId]
                THEN AddConfGame(
                        AddConfGame(stats, confById[homeId],
                                    HomeScore(g).n - AwayScore(g).n),
                        confById[awayId], AwayScore(g).n - HomeScore(g).n)
                ELSE stats)

ConferenceGameStats(teams, games) ==
    ConferenceGameStatsFrom(games, TeamConferenceById(teams), EmptyMap)

\* the conference as listed, without the 'Independent' bucket
ConferenceKeyAsListed(t) == Field(t, "conference")

\* t.conference || 'Independent'
ConferenceKey(t) == OrElse(Field(t, "conference"), Str(Independent))

\* the keys of byConf in insertion order
RECURSIVE ConferenceOrderFrom(_, _)
ConferenceOrderFrom(teams, seen) ==
    IF teams = <<>> THEN seen
    ELSE ConferenceOrderFrom(Tail(teams),
            IF ConferenceKey(Head(teams)) \in Range(seen) THEN seen
            ELSE Append(seen, ConferenceKey(Head(teams))))

RECURSIVE SumSeq(_)
SumSeq(xs) == IF xs = <<>> THEN 0 ELSE Head(xs) + SumSeq(Tail(xs))

\* a variant that counts the members without a rank in the divisor
AvgRankOverAll(teamArr) ==
    LET HasRank(t) == Field(t, "rank").t = "num"
        ranked == SelectSeq(teamArr, HasRank)
        ranks == [i \in 1..Len(ranked) |-> ranked[i].rank.n]
    IN IF Len(ranks) > 0 THEN Div(SumSeq(ranks), Len(teamArr)) ELSE Null

\* a variant that renders 0 when no member has a rank
AvgRankOfZero(teamArr) ==
    LET HasRank(t) == Field(t, "rank").t = "num"
        ranked == SelectSeq(teamArr, HasRank)
        ranks == [i \in 1..Len(ranked) |-> ranked[i].rank.n]
    IN IF Len(ranks) > 0 THEN Div(SumSeq(ranks), Len(ranks)) ELSE Num(0)

\* avgRank: mean of the members' ranks that are numbers
AvgRankOf(teamArr) ==
    LET HasRank(t) == Field(t, "rank").t = "num"
        ranked == SelectSeq(teamArr, HasRank)
        ranks == [i \in 1..Len(ranked) |-> ranked[i].rank.n]
    IN IF Len(ranks) > 0 THEN Div(SumSeq(ranks), Len(ranks)) ELSE Null

\* avgPointDiff: gs && gs.games > 0 ? gs.totalMargin / gs.games : null
AvgPointDiffOf(gameStats, conf) ==
    IF MapHas(gameStats, conf) /\ gameStats[conf].games > 0
    THEN Div(gameStats[conf].totalMargin, gameStats[conf].games)
    ELSE Null

\* the member's contribution to totalPoints / totalGames
MemberPoints(teamStats, t) ==
    IF MapHas(teamStats, Field(t, "team_id")) /\ teamStats[Field(t, "team_id")].games > 0
    THEN teamStats[Field(t, "team_id")].pointsFor
    ELSE 0

MemberGames(teamStats, t) ==
    IF MapHas(teamStats, Field(t, "team_id")) /\ teamStats[Field(t, "team_id")].games > 0
    THEN teamStats[Field(t, "team_id")].games
    ELSE 0

RECURSIVE ProdSeq(_)
ProdSeq(xs) == IF xs = <<>> THEN 1 ELSE Head(xs) * ProdSeq(Tail(xs))

\* the mean of the members' own averages
AvgPointsForOfMeans(teamStats, teamArr) ==
    LET Played(t) == MemberGames(teamStats, t) > 0
        played == SelectSeq(teamArr, Played)
        gamesOf == [i \in 1..Len(played) |-> MemberGames(teamStats, played[i])]
        scaled == [i \in 1..Len(played) |->
                     MemberPoints(teamStats, played[i])
                     * (ProdSeq(gamesOf) \div gamesOf[i])]
    IN IF Len(played) > 0
       THEN Div(SumSeq(scaled), Len(played) * ProdSeq(gamesOf))
       ELSE Null

\* avgPointsFor: totalGames > 0 ? totalPoints / totalGames : null
AvgPointsForOf(teamStats, teamArr) ==
    LET totalPoints ==
            SumSeq([i \in 1..Len(teamArr) |-> MemberPoints(teamStats, teamArr[i])])
        totalGames ==
            SumSeq([i \in 1..Len(teamArr) |-> MemberGames(teamStats, teamArr[i])])
    IN IF totalGames > 0 THEN Div(totalPoints, totalGames) ELSE Null

\* conferenceRows: one row per key of byConf, in insertion order
ConferenceRows(teams, rankings, games) ==
    LET gameStats == ConferenceGameStats(teams, games)
        teamStats == TeamGameStats(games)
        withRank == TeamsWithRank(teams, rankings)
        order == ConferenceOrderFrom(withRank, <<>>)
        Members(conf) ==
            LET InConf(t) == ConferenceKey(t) = conf
            IN SelectSeq(withRank, InConf)
    IN [i \in 1..Len(order) |->
            [conference |-> order[i],
             numTeams |-> Num(Len(Members(order[i]))),
             avgRank |-> AvgRankOf(Members(order[i])),
             avgPointDiff |-> AvgPointDiffOf(gameStats, order[i]),
             avgPointsFor |-> AvgPointsForOf(teamStats, Members(order[i]))]]

(***************************************************************************)
(* Responses of the three endpoints the model draws from.                  *)
(***************************************************************************)
NameAb == <<65, 98>>
NameaB == <<97, 66>>
NameBa == <<66, 97>>
NameC == <<67>>
MascotCat == <<67, 97, 116>>

\* /v1/teams: A and B share a conference and a name up to case, C has no
\* conference, D sits alone in a second conference
TeamA == [team_id |-> Num(1), team_name |-> Str(NameAb),
          mascot |-> Str(MascotCat), conference |-> Str(ConfX)]
TeamB == [team_id |-> Num(2), team_name |-> Str(NameaB),
          conference |-> Str(ConfX)]
TeamC == [team_id |-> Num(10), team_name |-> Str(NameBa),
          mascot |-> Str(MascotCat), conference |-> Null]
TeamD == [team_id |-> Num(3), team_name |-> Str(NameC),
          conference |-> Str(ConfY)]

TeamRoster == <<TeamA, TeamC, TeamD, TeamB>>

\* /v1/games: the date sits under game_date, date or gameDate, or is
\* missing or unparseable
GameSep1 == [game_id |-> Num(1), game_date |-> Str(DSep1),
             home_team_id |-> Num(1), away_team_id |-> Num(2),
             home_score |-> Num(30), away_score |-> Num(10)]
GameEve == [game_id |-> Num(2), date |-> Str(DSep1Eve),
            home_team_id |-> Num(2), away_team_id |-> Num(10),
            home_points |-> Num(20), away_points |-> Num(20)]
GameSep8 == [game_id |-> Num(3), gameDate |-> Str(DSep8),
             home_team_id |-> Num(10), away_team_id |-> Num(1)]
GameSep1B == [game_id |-> Num(4), game_date |-> Str(DSep1),
              home_team_id |-> Num(10), away_team_id |-> Num(2)]
GameTbd == [game_id |-> Num(5), game_date |-> Str(DBad),
            home_team_id |-> Num(1), away_team_id |-> Num(10)]
GameNoDate == [game_id |-> Num(6), home_team_id |-> Num(2),
               away_team_id |-> Num(1)]

GameRoster == <<GameSep1, GameEve, GameSep8, GameTbd, GameNoDate, GameSep1B>>

\* /v1/ranker: A and B tie on wins and win_pct, C is unranked
RankA == [team_id |-> Num(1), team_name |-> Str(NameAb),
          conference |-> Str(ConfX), rank |-> Num(1), wins |-> Num(3),
          win_pct |-> Div(3, 4), rating |-> Div(3, 2)]
RankB == [team_id |-> Num(2), team_name |-> Str(NameaB),
          conference |-> Str(ConfX), rank |-> Num(2), wins |-> Num(3),
          win_pct |-> Div(3, 4), rating |-> Num(1)]
RankC == [id |-> Num(10), team_name |-> Str(NameBa),
          conference |-> Str(ConfY), wins |-> Num(0)]
RankD == [team_id |-> Num(3), team_name |-> Str(NameC), rank |-> Num(2),
          ranking |-> Num(1), wins |-> Num(1), rating |-> Num(1)]

RankRoster == <<RankA, RankB, RankC, RankD>>

\* the first k records an endpoint holds, the roster repeating beyond its end
FirstOf(roster, k) == [i \in 1..k |-> roster[((i - 1) % Len(roster)) + 1]]

\* an endpoint answers with the records it holds so far
TeamsResponses == {FirstOf(TeamRoster, k) : k \in 0..MaxRows}
GamesResponses == {FirstOf(GameRoster, k) : k \in 0..MaxRows}
RankingsResponses == {FirstOf(RankRoster, k) : k \in 0..MaxRows}

\* whole responses, for the collections a view only joins against
FullTeams == <<TeamA, TeamB, TeamC, TeamD>>
FullGames == <<GameSep1, GameEve>>
FullRankings == <<RankA, RankC>>

QueryAB == <<32, 65, 66>>
QueryX == <<88, 32>>

Queries(v) == IF v = "conferences" THEN {<<>>, QueryX} ELSE {<<>>, QueryAB}
Dates == {<<>>, DSep1, DSep8}

(***************************************************************************)
(* The pipeline of the mounted view, from its refs.                        *)
(***************************************************************************)
\* the collection the table is built from
TableRows ==
    CASE view = "games" -> gamesRaw
      [] view = "teams" -> teamsRaw
      [] view = "conferences" -> ConferenceRows(teamsRaw, rankingsRaw, gamesRaw)
      [] view \in {"rankings", "ratings"} -> rankingsRaw

\* filteredGames / filteredTeams / filteredConferences
FilteredRows ==
    CASE view = "games" ->
            FilteredGames(gamesRaw, teamsRaw, selectedDate, selectedConference,
                          selectedTeamId)
      [] view = "conferences" ->
            FilteredConferences(TableRows, searchQuery, selectedConference)
      [] OTHER -> FilteredTeams(TableRows, searchQuery, selectedConference)

\* sortedGames / sortedTeams / sortedConferences: every order the sort may give
SortedRows == SortOutcomes(view, sortKey, sortDirection, FilteredRows)

totalPages == TotalPagesOf(view, Len(FilteredRows), pageSize)

\* the conferences offered by the conference select
RECURSIVE TruthyConferences(_)
TruthyConferences(rows) ==
    IF rows = <<>> THEN {}
    ELSE (IF Truthy(Field(Head(rows), "conference"))
          THEN {Field(Head(rows), "conference").s} ELSE {})
         \cup TruthyConferences(Tail(rows))

ConferenceOptions ==
    {ALL} \cup
    CASE view \in {"games", "teams"} -> TruthyConferences(teamsRaw)
      [] view \in {"rankings", "ratings"} -> TruthyConferences(rankingsRaw)
      [] view = "conferences" -> {TableRows[i].conference.s : i \in 1..Len(TableRows)}

\* the ids offered by the team dropdown of the games view
TeamIdOptions ==
    {0} \cup {Field(teamsRaw[i], "team_id").n : i \in 1..Len(teamsRaw)}

(***************************************************************************)
(* The table views as a state machine.                                     *)
(***************************************************************************)
PageSizeOptions == 1..MaxPageSize

NoHandler == [op |-> "none", page |-> 1, dir |-> "asc"]

\* what last records when a handler has assigned watched refs
Watched(changed) ==
    IF changed
    THEN [op |-> "watch", page |-> currentPage, dir |-> sortDirection]
    ELSE last

\* the refs of a freshly set-up view
Init ==
    /\ view \in Views
    /\ teamsRaw = <<>>
    /\ gamesRaw = <<>>
    /\ rankingsRaw = <<>>
    /\ searchQuery = <<>>
    /\ selectedConference = ALL
    /\ selectedDate = <<>>
    /\ selectedTeamId = 0
    /\ sortKey = InitialSortKey(view)
    /\ sortDirection = InitialSortDirection(view)
    /\ currentPage = 1
    /\ pageSize = InitialPageSize
    /\ last = NoHandler
    /\ FetchIdle
    /\ phase = "ui"
    /\ result = <<>>

\* a watcher that leaves the page alone
WatchedPageKept(changed, page) == page

\* watch([...filters, pageSize], () => { currentPage.value = 1 }): the page
\* after a handler that assigned the watched refs
WatchedPage(changed, page) == IF changed THEN 1 ELSE page

\* loadData of the games view, both fetches succeeding
LoadData ==
    /\ view = "games"
    /\ gamesRaw' \in GamesResponses
    /\ teamsRaw' \in {<<>>, FullTeams}
    /\ UNCHANGED <<fetchVars, view, rankingsRaw, filterVars, sortKey, sortDirection,
                   currentPage, pageSize, last, phase, result>>

\* loadTeams of the teams and conference views, the fetch succeeding
LoadTeams ==
    /\ view \in {"teams", "conferences"}
    /\ teamsRaw' \in TeamsResponses
    /\ UNCHANGED <<fetchVars, view, gamesRaw, rankingsRaw, filterVars, sortKey,
                   sortDirection, currentPage, pageSize, last, phase, result>>

\* loadRankings, the fetch succeeding
LoadRankings ==
    /\ \/ /\ view \in {"rankings", "ratings"}
          /\ rankingsRaw' \in RankingsResponses
       \/ /\ view = "conferences"
          /\ rankingsRaw' \in {<<>>, FullRankings}
    /\ UNCHANGED <<fetchVars, view, teamsRaw, gamesRaw, filterVars, sortKey,
                   sortDirection, currentPage, pageSize, last, phase, result>>

\* loadGamesIfNeeded of the conference view, the fetch succeeding
LoadGamesIfNeeded ==
    /\ view = "conferences"
    /\ Len(gamesRaw) = 0
    /\ gamesRaw' \in {<<>>, FullGames}
    /\ UNCHANGED <<fetchVars, view, teamsRaw, rankingsRaw, filterVars, sortKey,
                   sortDirection, currentPage, pageSize, last, phase, result>>

\* v-model="searchQuery"
SetSearchQuery(q) ==
    /\ view # "games"
    /\ searchQuery' = q
    /\ currentPage' = WatchedPage(q # searchQuery, currentPage)
    /\ last' = Watched(q # searchQuery)
    /\ UNCHANGED <<fetchVars, view, dataVars, selectedConference, selectedDate,
                   selectedTeamId, sortKey, sortDirection, pageSize, phase,
                   result>>

\* v-model="selectedConference"
SetSelectedConference(c) ==
    /\ c \in ConferenceOptions
    /\ selectedConference' = c
    /\ currentPage' = WatchedPage(c # selectedConference, currentPage)
    /\ last' = Watched(c # selectedConference)
    /\ UNCHANGED <<fetchVars, view, dataVars, searchQuery, selectedDate, selectedTeamId,
                   sortKey, sortDirection, pageSize, phase, result>>

\* v-model="selectedDate" of the games view
SetSelectedDate(d) ==
    /\ view = "games"
    /\ selectedDate' = d
    /\ currentPage' = WatchedPage(d # selectedDate, currentPage)
    /\ last' = Watched(d # selectedDate)
    /\ UNCHANGED <<fetchVars, view, dataVars, searchQuery, selectedConference,
                   selectedTeamId, sortKey, sortDirection, pageSize, phase,
                   result>>

\* selectTeam(id) of the games view
SelectTeam(id) ==
    /\ view = "games"
    /\ id \in TeamIdOptions
    /\ selectedTeamId' = id
    /\ currentPage' = WatchedPage(id # selectedTeamId, currentPage)
    /\ last' = Watched(id # selectedTeamId)
    /\ UNCHANGED <<fetchVars, view, dataVars, searchQuery, selectedConference,
                   selectedDate, sortKey, sortDirection, pageSize, phase,
                   result>>

\* v-model.number="pageSize" (the games view has no page-size select)
SetPageSize(size) ==
    /\ view # "games"
    /\ pageSize' = size
    /\ currentPage' = WatchedPage(size # pageSize, currentPage)
    /\ last' = Watched(size # pageSize)
    /\ UNCHANGED <<fetchVars, view, dataVars, filterVars, sortKey, sortDirection, phase,
                   result>>

\* one default for every key
DefaultDirectionAsc(v, key) == "asc"

\* the direction changeSort gives a newly selected key
DefaultDirection(v, key) ==
    CASE v = "games" -> IF key = "game_date" THEN "desc" ELSE "asc"
      [] v = "teams" -> "asc"
      [] v = "conferences" -> "asc"
      [] v = "rankings" -> IF key = "rank" THEN "asc" ELSE "desc"
      [] v = "ratings" -> IF key = "ranking" THEN "asc" ELSE "desc"

\* a toggle that sticks at 'desc'
FlippedDirectionStuck(dir) == "desc"

\* sortDirection.value === 'asc' ? 'desc' : 'asc'
FlippedDirection(dir) == IF dir = "asc" THEN "desc" ELSE "asc"

\* a changeSort that also goes back to the first page
ChangeSortResetsPage(key) ==
    /\ key \in SortKeys(view)
    /\ IF sortKey = key
       THEN /\ sortDirection' = FlippedDirection(sortDirection)
            /\ sortKey' = sortKey
       ELSE /\ sortKey' = key
            /\ sortDirection' = DefaultDirection(view, key)
    /\ last' = [op |-> IF sortKey = key THEN "flip" ELSE "select",
                page |-> currentPage, dir |-> sortDirection]
    /\ currentPage' = 1
    /\ UNCHANGED <<fetchVars, view, dataVars, filterVars, pageSize, phase, result>>

\* changeSort(key)
ChangeSort(key) ==
    /\ key \in SortKeys(view)
    /\ IF sortKey = key
       THEN /\ sortDirection' = FlippedDirection(sortDirection)
            /\ sortKey' = sortKey
       ELSE /\ sortKey' = key
            /\ sortDirection' = DefaultDirection(view, key)
    /\ last' = [op |-> IF sortKey = key THEN "flip" ELSE "select",
                page |-> currentPage, dir |-> sortDirection]
    /\ UNCHANGED <<fetchVars, view, dataVars, filterVars, currentPage, pageSize, phase,
                   result>>

\* goToPage(page), called with currentPage - 1 or currentPage + 1
GoToPage(page) ==
    /\ ~(page < 1 \/ page > totalPages)
    /\ currentPage' = page
    /\ UNCHANGED <<fetchVars, view, dataVars, filterVars, sortKey, sortDirection,
                   pageSize, last, phase, result>>

Next ==
    \/ LoadData
    \/ LoadTeams
    \/ LoadRankings
    \/ LoadGamesIfNeeded
    \/ \E q \in Queries(view) : SetSearchQuery(q)
    \/ \E c \in ConferenceOptions : SetSelectedConference(c)
    \/ \E d \in Dates : SetSelectedDate(d)
    \/ \E id \in TeamIdOptions : SelectTeam(id)
    \/ \E size \in PageSizeOptions : SetPageSize(size)
    \/ \E key \in SortKeys(view) : ChangeSort(key)
    \/ \E page \in {currentPage - 1, currentPage + 1} : GoToPage(page)

Spec == Init /\ [][Next]_vars

(***************************************************************************)
(* Properties of the query-state handlers.                                 *)
(***************************************************************************)
\* C2: whenever a filter input (searchQuery, selectedConference,
\* selectedDate, selectedTeamId) or pageSize changes, currentPage is 1
\* afterwards, whatever it was before.
C2_FilterChangeResetsPage ==
    [][(\/ searchQuery' # searchQuery
        \/ selectedConference' # selectedConference
        \/ selectedDate' # selectedDate
        \/ selectedTeamId' # selectedTeamId
        \/ pageSize' # pageSize) => currentPage' = 1]_vars

\* a watched input changed while a later page was current, and the view is
\* on page 1
C2_Witness ==
    /\ last.op = "watch"
    /\ last.page >= 2
    /\ currentPage = 1

\* C3: changeSort leaves currentPage, pageSize and every filter input as
\* they are: a step that changes sortKey or sortDirection changes nothing
\* else of the query state or of the collections.
C3_ChangeSortFrame ==
    [][(sortKey' # sortKey \/ sortDirection' # sortDirection) =>
          /\ currentPage' = currentPage
          /\ pageSize' = pageSize
          /\ searchQuery' = searchQuery
          /\ selectedConference' = selectedConference
          /\ selectedDate' = selectedDate
          /\ selectedTeamId' = selectedTeamId
          /\ UNCHANGED dataVars]_vars

\* changeSort ran on a later page with a conference filter set, and the
\* view is still on that page with that filter
C3_Witness ==
    /\ last.op \in {"flip", "select"}
    /\ last.page >= 2
    /\ currentPage = last.page
    /\ selectedConference # ALL

\* C4: changeSort(k) on the active key keeps the key and flips the
\* direction; changeSort(k) on another key makes k the key; the direction is
\* always 'asc' or 'desc'.
C4_ChangeSortToggles ==
    /\ [](sortDirection \in {"asc", "desc"})
    /\ [][\A k \in SortKeys(view) :
             ChangeSort(k) =>
                /\ sortKey' = k
                /\ sortKey = k =>
                      \/ sortDirection = "asc" /\ sortDirection' = "desc"
                      \/ sortDirection = "desc" /\ sortDirection' = "asc"]_vars

\* the active key was clicked while its direction was 'desc', and it is
\* 'asc' now
C4_Witness ==
    /\ last.op = "flip"
    /\ last.dir = "desc"
    /\ sortDirection = "asc"

\* C5 as claimed: a newly selected key gets 'desc' when it is the date key
\* or the rank key and 'asc' otherwise, in every view.
C5_Claimed ==
    [][\A k \in SortKeys(view) :
          (ChangeSort(k) /\ sortKey # k) =>
             sortDirection' =
                IF k \in {"game_date", "rank", "ranking"} THEN "desc" ELSE "asc"]_vars

\* C5: a newly selected key gets that key's own default, whatever the
\* direction was: in the games view 'desc' for game_date and 'asc' for the
\* other keys; in the teams and conference views 'asc' for every key; in
\* the two rankings views 'asc' for the rank key (rank, ranking) and 'desc'
\* for every other key.
C5_DefaultPerKey ==
    [][\A k \in SortKeys(view) :
          (ChangeSort(k) /\ sortKey # k) =>
             sortDirection' =
                CASE view = "games" ->
                        IF k = "game_date" THEN "desc" ELSE "asc"
                  [] view \in {"teams", "conferences"} -> "asc"
                  [] view \in {"rankings", "ratings"} ->
                        IF k \in {"rank", "ranking"} THEN "asc" ELSE "desc"]_vars

\* in a rankings view a key other than the rank key was selected while the
\* direction was 'asc', and the direction is 'desc' now
C5_Witness ==
    /\ view \in {"rankings", "ratings"}
    /\ last.op = "select"
    /\ last.dir = "asc"
    /\ sortKey \notin {"rank", "ranking"}
    /\ sortDirection = "desc"

(***************************************************************************)
(* Pagination on its own: a table of n distinct rows is paged through from *)
(* page 1 with goToPage(currentPage + 1); result collects the rendered     *)
(* pages.                                                                  *)
(***************************************************************************)
SampleTeam(i) ==
    [team_id |-> Num(i), team_name |-> Str(<<64 + i>>),
     conference |-> Str(<<64 + i>>), rank |-> Num(i), rating |-> Num(-i)]

SampleGame(i) ==
    [game_id |-> Num(i), game_date |-> Str(DSep1),
     home_team_id |-> Num(i), away_team_id |-> Num(i + 1)]

PageInit ==
    /\ view \in Views
    /\ \E n \in 0..MaxCount :
          /\ teamsRaw = IF view \in {"teams", "conferences"}
                        THEN [i \in 1..n |-> SampleTeam(i)] ELSE <<>>
          /\ gamesRaw = IF view = "games"
                        THEN [i \in 1..n |-> SampleGame(i)] ELSE <<>>
          /\ rankingsRaw = IF view \in {"rankings", "ratings"}
                           THEN [i \in 1..n |-> SampleTeam(i)] ELSE <<>>
    /\ searchQuery = <<>>
    /\ selectedConference = ALL
    /\ selectedDate = <<>>
    /\ selectedTeamId = 0
    /\ sortKey = InitialSortKey(view)
    /\ sortDirection = InitialSortDirection(view)
    /\ currentPage = 1
    /\ pageSize \in 1..MaxPagedSize
    /\ last = NoHandler
    /\ FetchIdle
    /\ phase = "paging"
    /\ result = <<>>

\* the template renders paginatedGames / paginatedTeams / paginatedConferences
RenderPage ==
    /\ phase = "paging"
    /\ Len(result) < currentPage
    /\ \E S \in SortedRows :
          result' = Append(result, PaginatedOf(S, currentPage, pageSize))
    /\ UNCHANGED <<fetchVars, view, dataVars, filterVars, sortKey, sortDirection,
                   currentPage, pageSize, last, phase>>

TurnPage ==
    /\ phase = "paging"
    /\ Len(result) = currentPage
    /\ GoToPage(currentPage + 1)

PageNext == RenderPage \/ TurnPage

PageSpec == PageInit /\ [][PageNext]_vars

RECURSIVE Flatten(_)
Flatten(pages) ==
    IF pages = <<>> THEN <<>> ELSE Head(pages) \o Flatten(Tail(pages))

\* C1: the pages 1..totalPages, concatenated in order, are the sorted and
\* filtered sequence: once every page has been rendered the rendered rows
\* are that sequence, and before that they are its prefix of
\* Len(result) * pageSize rows.
C1_PagesCoverSequence ==
    phase = "paging" =>
        \A S \in SortedRows :
            /\ Flatten(result) = SubSeq(S, 1, Min(Len(result) * pageSize, Len(S)))
            /\ Len(result) = totalPages => Flatten(result) = S

\* every page of a table of several pages has been rendered, the last one
\* only partly filled
C1_Witness ==
    /\ phase = "paging"
    /\ totalPages >= 2
    /\ Len(result) = totalPages
    /\ Len(result[totalPages]) < pageSize
    /\ Len(result[totalPages]) > 0

(***************************************************************************)
(* The sort stage on its own: a view holds a collection, a sort key and a  *)
(* direction, and sorts.  result is the sorted array with the key and      *)
(* direction it was sorted under.                                          *)
(***************************************************************************)
TeamSortPool == {TeamA, TeamB, TeamC, TeamD}
GameSortPool == {GameSep1, GameSep1B, GameEve, GameTbd}
RankSortPool == {RankA, RankB, RankC, RankD}

SortInit ==
    /\ view \in Views
    /\ teamsRaw \in IF view \in {"teams", "conferences"}
                    THEN SeqsUpTo(TeamSortPool, MaxSortLen) ELSE {<<>>}
    /\ gamesRaw \in CASE view = "games" -> SeqsUpTo(GameSortPool, MaxSortLen)
                      [] view = "conferences" -> {FullGames}
                      [] OTHER -> {<<>>}
    /\ rankingsRaw \in CASE view \in {"rankings", "ratings"} ->
                                SeqsUpTo(RankSortPool, MaxSortLen)
                         [] view = "conferences" -> {FullRankings}
                         [] OTHER -> {<<>>}
    /\ searchQuery = <<>>
    /\ selectedConference = ALL
    /\ selectedDate = <<>>
    /\ selectedTeamId = 0
    /\ sortKey \in SortKeys(view)
    /\ sortDirection \in Directions
    /\ currentPage = 1
    /\ pageSize = InitialPageSize
    /\ last = NoHandler
    /\ FetchIdle
    /\ phase = "unsorted"
    /\ result = <<>>

\* sortedGames / sortedTeams / sortedConferences is computed
ApplySort ==
    /\ phase = "unsorted"
    /\ \E S \in SortedRows :
          result' = [key |-> sortKey, dir |-> sortDirection, rows |-> S]
    /\ phase' = "sorted"
    /\ UNCHANGED <<fetchVars, view, dataVars, filterVars, sortKey, sortDirection,
                   currentPage, pageSize, last>>

SortNext == ApplySort

SortSpec == SortInit /\ [][SortNext]_vars

\* the value a record is sorted by under a key: the timestamp, the number
\* or the lowercased string the comparator derives from it
KeyValue(v, key, r) ==
    IF v = "games" /\ key = "game_date" THEN GameTime(r)
    ELSE IF key \in NumericSortKeys(v)
    THEN ToNumber(Coalesce(SortValue(v, key, r), Num(0)))
    ELSE Str(ToLowerCase(ToStr(Coalesce(SortValue(v, key, r), Str(<<>>)))))

\* the rows of seq whose key value is that of r, in their order in seq
SameKeyRows(seq, r) ==
    LET SameKey(x) == KeyValue(view, sortKey, x) = KeyValue(view, sortKey, r)
    IN SelectSeq(seq, SameKey)

\* C6 as claimed: the sort is stable for any input, key and direction: the
\* records that share a sort-key value come out in the order they went in.
C6_Claimed ==
    phase = "sorted" =>
        \A r \in Range(FilteredRows) :
            SameKeyRows(result.rows, r) = SameKeyRows(FilteredRows, r)

\* the values under the key are comparable: no comparison yields NaN
Comparable ==
    \A a, b \in Range(FilteredRows) :
        Comparator(view, sortKey, sortDirection, a, b).t # "nan"

\* no two rows of the input tie under the key
NoTies ==
    \A i, j \in 1..Len(FilteredRows) :
        i # j => SortCompare(view, sortKey, sortDirection,
                             FilteredRows[i], FilteredRows[j]) # 0

\* C7 as claimed: for comparable values, ties included, the ascending
\* output reversed is the descending output.
C7_Claimed ==
    (phase = "sorted" /\ result.dir = "asc" /\ Comparable) =>
        \A D \in SortOutcomes(view, sortKey, "desc", FilteredRows) :
            Reverse(result.rows) = D

\* C7: for comparable values no two of which tie under the key, the
\* ascending output reversed is the descending output.
C7_ReverseWithoutTies ==
    (phase = "sorted" /\ result.dir = "asc" /\ Comparable /\ NoTies) =>
        \A D \in SortOutcomes(view, sortKey, "desc", FilteredRows) :
            Reverse(result.rows) = D

\* an input of three or more rows without ties that the ascending sort had
\* to reorder
C7_Witness ==
    /\ phase = "sorted"
    /\ result.dir = "asc"
    /\ Comparable
    /\ NoTies
    /\ Len(FilteredRows) >= 3
    /\ result.rows # FilteredRows
    /\ Reverse(result.rows) # FilteredRows

(***************************************************************************)
(* The conference view's aggregation on its own: the teams, rankings and   *)
(* games have loaded and the roll-ups are computed.  result holds          *)
(* conferenceRows, teamGameStats and conferenceGameStats.                  *)
(***************************************************************************)
\* teams 1 and 2 in X, team 3 in Y, team 10 without a conference
AggTeamPool == {TeamA, TeamB, TeamD, TeamC}

PlayedGame(id, home, away, hs, as) ==
    [game_id |-> Num(id), home_team_id |-> home, away_team_id |-> away,
     home_score |-> hs, away_score |-> as]

\* X at Y 30-10; X at Y 20-20 under the points names; two games that give
\* team 1 ten points in two games and team 2 twenty in one
GameXY == PlayedGame(11, Num(1), Num(3), Num(30), Num(10))
GameXYDraw == [game_id |-> Num(12), home_team_id |-> Num(2),
               away_team_id |-> Num(3), home_points |-> Num(20),
               away_points |-> Num(20)]
GameXX == PlayedGame(13, Num(1), Num(2), Num(5), Num(20))
GameShutout == PlayedGame(14, Num(1), Num(3), Num(5), Num(0))
\* a team without a conference at X
GameIndependent == PlayedGame(15, Num(10), Num(1), Num(3), Num(9))
\* records that lack a score or a team
GameNoHomeScore == [game_id |-> Num(16), home_team_id |-> Num(1),
                    away_team_id |-> Num(2), home_score |-> Null]
GameNoAwayScore == [game_id |-> Num(17), home_team_id |-> Num(3),
                    away_team_id |-> Num(1), home_score |-> Num(13)]
GameNoHome == PlayedGame(18, Null, Num(2), Num(14), Num(3))
GameNoAway == [game_id |-> Num(19), home_team_id |-> Num(2),
               home_score |-> Num(7), away_score |-> Num(21)]

AggGamePool == {GameXY, GameXYDraw, GameXX, GameShutout, GameIndependent,
                GameNoHomeScore, GameNoAwayScore, GameNoHome, GameNoAway}

\* the sequences over S, up to n long, that repeat no element
DistinctSeqsUpTo(S, n) ==
    {q \in SeqsUpTo(S, n) : \A i, j \in 1..Len(q) : i # j => q[i] # q[j]}

AggInit ==
    /\ view = "conferences"
    /\ teamsRaw \in DistinctSeqsUpTo(AggTeamPool, MaxTeams)
    /\ gamesRaw \in SeqsUpTo(AggGamePool, MaxGames)
    /\ rankingsRaw = FullRankings
    /\ searchQuery = <<>>
    /\ selectedConference = ALL
    /\ selectedDate = <<>>
    /\ selectedTeamId = 0
    /\ sortKey = InitialSortKey("conferences")
    /\ sortDirection = InitialSortDirection("conferences")
    /\ currentPage = 1
    /\ pageSize = InitialPageSize
    /\ last = NoHandler
    /\ FetchIdle
    /\ phase = "loaded"
    /\ result = <<>>

\* conferenceRows, teamGameStats and conferenceGameStats are computed
Aggregate ==
    /\ phase = "loaded"
    /\ result' = [rows |-> ConferenceRows(teamsRaw, rankingsRaw, gamesRaw),
                  teamStats |-> TeamGameStats(gamesRaw),
                  confStats |-> ConferenceGameStats(teamsRaw, gamesRaw)]
    /\ phase' = "aggregated"
    /\ UNCHANGED <<fetchVars, view, dataVars, filterVars, sortKey, sortDirection,
                   currentPage, pageSize, last>>

AggNext == Aggregate

AggSpec == AggInit /\ [][AggNext]_vars

\* the games that carry both team ids and both scores, by position
CompleteGames ==
    {i \in 1..Len(gamesRaw) :
        /\ Field(gamesRaw[i], "home_team_id") # Null
        /\ Field(gamesRaw[i], "away_team_id") # Null
        /\ HomeScore(gamesRaw[i]) # Null
        /\ AwayScore(gamesRaw[i]) # Null}

\* the sum of f over a finite set
RECURSIVE SumOver(_, _)
SumOver(S, f) ==
    IF S = {} THEN 0
    ELSE LET x == CHOOSE y \in S : TRUE
         IN f[x] + SumOver(S \ {x}, f)

\* what the complete games give a set of team ids: the points its teams
\* scored and the team-games they played
PointsOfTeams(ids) ==
    SumOver(CompleteGames,
        [i \in CompleteGames |->
            (IF gamesRaw[i].home_team_id \in ids
             THEN HomeScore(gamesRaw[i]).n ELSE 0)
            + (IF gamesRaw[i].away_team_id \in ids
               THEN AwayScore(gamesRaw[i]).n ELSE 0)])

GamesOfTeams(ids) ==
    SumOver(CompleteGames,
        [i \in CompleteGames |->
            (IF gamesRaw[i].home_team_id \in ids THEN 1 ELSE 0)
            + (IF gamesRaw[i].away_team_id \in ids THEN 1 ELSE 0)])

\* the ids of the teams listed under a conference name, the teams without
\* one under 'Independent'
MembersOf(conf) ==
    {teamsRaw[i].team_id : i \in
        {j \in 1..Len(teamsRaw) :
            (IF Truthy(Field(teamsRaw[j], "conference"))
             THEN teamsRaw[j].conference ELSE Str(Independent)) = conf}}

\* C8: the avgPointsFor of a conference row is the points its member teams
\* scored in complete games over the team-games they played in them, the
\* games-weighted average, and null when they played none.
C8_AvgPointsForWeighted ==
    phase = "aggregated" =>
        \A i \in 1..Len(result.rows) :
            LET ids == MembersOf(result.rows[i].conference)
            IN result.rows[i].avgPointsFor =
                   IF GamesOfTeams(ids) > 0
                   THEN Div(PointsOfTeams(ids), GamesOfTeams(ids))
                   ELSE Null

\* conference X with team 1 on 10 points from 2 games and team 2 on 20
\* from 1: the row shows 10, where the mean of 5 and 20 is 25/2
C8_Witness ==
    /\ phase = "aggregated"
    /\ PointsOfTeams({Num(1)}) = 10 /\ GamesOfTeams({Num(1)}) = 2
    /\ PointsOfTeams({Num(2)}) = 20 /\ GamesOfTeams({Num(2)}) = 1
    /\ \E i \in 1..Len(result.rows) :
          /\ result.rows[i].conference = Str(ConfX)
          /\ MembersOf(Str(ConfX)) = {Num(1), Num(2)}
          /\ result.rows[i].avgPointsFor = Num(10)
          /\ result.rows[i].avgPointsFor # Div(25, 2)

\* every team id and conference name the loaded data mentions
MentionedTeams ==
    {Field(gamesRaw[i], "home_team_id") : i \in 1..Len(gamesRaw)}
    \cup {Field(gamesRaw[i], "away_team_id") : i \in 1..Len(gamesRaw)}
    \cup {Field(teamsRaw[i], "team_id") : i \in 1..Len(teamsRaw)}

MentionedConferences ==
    {Field(teamsRaw[i], "conference") : i \in 1..Len(teamsRaw)}

\* the conference of a team id: that of a listed team with a conference
ConferenceKnown(id) ==
    \E i \in 1..Len(teamsRaw) :
        teamsRaw[i].team_id = id /\ Truthy(Field(teamsRaw[i], "conference"))

ConferenceOfTeam(id) ==
    (CHOOSE t \in Range(teamsRaw) :
        t.team_id = id /\ Truthy(Field(t, "conference"))).conference

\* the complete games between two different known conferences
CrossConferenceGames ==
    {i \in CompleteGames :
        /\ ConferenceKnown(gamesRaw[i].home_team_id)
        /\ ConferenceKnown(gamesRaw[i].away_team_id)
        /\ ConferenceOfTeam(gamesRaw[i].home_team_id)
             # ConferenceOfTeam(gamesRaw[i].away_team_id)}

\* the games among a set that a conference plays in
GamesOfConference(S, conf) ==
    {i \in S : conf \in {ConferenceOfTeam(gamesRaw[i].home_team_id),
                         ConferenceOfTeam(gamesRaw[i].away_team_id)}}

\* C9: a game that lacks a team id or a score adds nothing to teamGameStats
\* or conferenceGameStats: a team's games are the complete games it plays
\* in, its points those it scored in them, and a conference's games are
\* complete games.
C9_IncompleteGamesIgnored ==
    phase = "aggregated" =>
        /\ \A id \in MentionedTeams :
              /\ GamesOfTeams({id}) =
                     IF id \in DOMAIN result.teamStats
                     THEN result.teamStats[id].games ELSE 0
              /\ PointsOfTeams({id}) =
                     IF id \in DOMAIN result.teamStats
                     THEN result.teamStats[id].pointsFor ELSE 0
        /\ \A conf \in DOMAIN result.confStats :
              result.confStats[conf].games =
                  Cardinality(GamesOfConference(CrossConferenceGames, conf))

\* the one game of team 1 against team 2 lacks the home score: neither
\* team has a game and no conference has one
C9_Witness ==
    /\ phase = "aggregated"
    /\ gamesRaw = <<GameNoHomeScore>>
    /\ {Num(1), Num(2)} \subseteq
           {teamsRaw[i].team_id : i \in 1..Len(teamsRaw)}
    /\ Num(1) \notin DOMAIN result.teamStats
    /\ Num(2) \notin DOMAIN result.teamStats
    /\ result.confStats = EmptyMap

\* what the games between different known conferences give a conference:
\* the home score less the away score where it hosts, the reverse where
\* it visits
MarginOfConference(conf) ==
    SumOver(CrossConferenceGames,
        [i \in CrossConferenceGames |->
            (IF ConferenceOfTeam(gamesRaw[i].home_team_id) = conf
             THEN HomeScore(gamesRaw[i]).n - AwayScore(gamesRaw[i]).n ELSE 0)
            + (IF ConferenceOfTeam(gamesRaw[i].away_team_id) = conf
               THEN AwayScore(gamesRaw[i]).n - HomeScore(gamesRaw[i]).n
               ELSE 0)])

\* C10: conferenceGameStats holds, for exactly the conferences that play a
\* complete game against another known conference, the margin summed over
\* those games and their count; same-conference games and games of a team
\* without a known conference add nothing; a row's avgPointDiff is the
\* margin over the count, null without such a game.
C10_NonConferenceMargins ==
    phase = "aggregated" =>
        /\ DOMAIN result.confStats =
               {conf \in MentionedConferences :
                   GamesOfConference(CrossConferenceGames, conf) # {}}
        /\ \A conf \in DOMAIN result.confStats :
              /\ result.confStats[conf].totalMargin = MarginOfConference(conf)
              /\ result.confStats[conf].games =
                     Cardinality(GamesOfConference(CrossConferenceGames, conf))
        /\ \A i \in 1..Len(result.rows) :
              LET conf == result.rows[i].conference
                  played == GamesOfConference(CrossConferenceGames, conf)
              IN result.rows[i].avgPointDiff =
                     IF played # {}
                     THEN Div(MarginOfConference(conf), Cardinality(played))
                     ELSE Null

\* teams 1 and 2 in X, team 3 in Y, 1 v 3 ends 30-10 and 2 v 3 ends 20-20:
\* X shows 10 and Y shows -10
C10_Witness ==
    /\ phase = "aggregated"
    /\ Range(teamsRaw) = {TeamA, TeamB, TeamD}
    /\ gamesRaw = <<GameXY, GameXYDraw>>
    /\ \E i, j \in 1..Len(result.rows) :
          /\ result.rows[i].conference = Str(ConfX)
          /\ result.rows[i].avgPointDiff = Num(10)
          /\ result.rows[j].conference = Str(ConfY)
          /\ result.rows[j].avgPointDiff = Num(-10)

(***************************************************************************)
(* The rankings view's lookup of a team's ranking, on its own: rankingsRaw *)
(* is loaded and getRankingForTeam is called with a team id and a name.    *)
(***************************************************************************)
\* { rank: rankVal, sos_score: sosScore }
RankingPayload(t) ==
    [rank |-> Coalesce(Field(t, "rank"), Null),
     sos_score |-> Coalesce(Field(t, "sos_score"), Null)]

\* rankingsLookup: byId under String(id), byName under the lowercased name,
\* a later record replacing an earlier one under the same key
RECURSIVE RankingsLookupFrom(_, _, _)
RankingsLookupFrom(rankings, byId, byName) ==
    IF rankings = <<>> THEN [byId |-> byId, byName |-> byName]
    ELSE LET t == Head(rankings)
             id == Coalesce(Field(t, "team_id"), Field(t, "id"))
             name == Field(t, "team_name")
         IN RankingsLookupFrom(Tail(rankings),
                IF ~IsNull(id) THEN MapSet(byId, ToStr(id), RankingPayload(t))
                ELSE byId,
                IF Truthy(name)
                THEN MapSet(byName, ToLowerCase(name.s), RankingPayload(t))
                ELSE byName)

RankingsLookup(rankings) == RankingsLookupFrom(rankings, EmptyMap, EmptyMap)

\* a lookup that takes the name as written
GetRankingForTeamExactCase(rankings, teamId, teamName) ==
    LET lookup == RankingsLookup(rankings)
    IN IF ~IsNull(teamId) /\ MapHas(lookup.byId, ToStr(teamId))
       THEN lookup.byId[ToStr(teamId)]
       ELSE IF Truthy(teamName) /\ MapHas(lookup.byName, teamName.s)
       THEN lookup.byName[teamName.s]
       ELSE [rank |-> Null, sos_score |-> Null]

\* getRankingForTeam(teamId, teamName)
GetRankingForTeam(rankings, teamId, teamName) ==
    LET lookup == RankingsLookup(rankings)
    IN IF ~IsNull(teamId) /\ MapHas(lookup.byId, ToStr(teamId))
       THEN lookup.byId[ToStr(teamId)]
       ELSE IF Truthy(teamName)
               /\ MapHas(lookup.byName, ToLowerCase(teamName.s))
       THEN lookup.byName[ToLowerCase(teamName.s)]
       ELSE [rank |-> Null, sos_score |-> Null]

\* ranking records: one named Foo with rank 5 and no id, and one whose id
\* is the string "1"
NameFoo == <<70, 111, 111>>
NameFOO == <<70, 79, 79>>
RankFoo == [team_name |-> Str(NameFoo), rank |-> Num(5), sos_score |-> Div(1, 2)]
RankStringId == [team_id |-> Str(<<49>>), team_name |-> Str(NameC),
                 rank |-> Num(7)]

LookupPool == {RankA, RankB, RankC, RankD, RankFoo, RankStringId}
LookupIds == {Null, Num(1), Num(2), Num(10), Num(77), Str(<<49>>)}
LookupNames == {Null, Str(<<>>), Str(NameFoo), Str(NameFOO), Str(NameAb),
                Str(NameBa)}

LookupInit ==
    /\ view = "rankings"
    /\ teamsRaw = <<>>
    /\ gamesRaw = <<>>
    /\ rankingsRaw \in SeqsUpTo(LookupPool, MaxLookupLen)
    /\ searchQuery = <<>>
    /\ selectedConference = ALL
    /\ selectedDate = <<>>
    /\ selectedTeamId = 0
    /\ sortKey = InitialSortKey("rankings")
    /\ sortDirection = InitialSortDirection("rankings")
    /\ currentPage = 1
    /\ pageSize = InitialPageSize
    /\ last = NoHandler
    /\ FetchIdle
    /\ phase = "lookup"
    /\ result = <<>>

\* a call of getRankingForTeam; result holds the arguments and the return
LookupRanking ==
    /\ phase = "lookup"
    /\ \E teamId \in LookupIds, teamName \in LookupNames :
          result' = [teamId |-> teamId, teamName |-> teamName,
                     payload |-> GetRankingForTeam(rankingsRaw, teamId, teamName)]
    /\ phase' = "lookedUp"
    /\ UNCHANGED <<fetchVars, view, dataVars, filterVars, sortKey, sortDirection,
                   currentPage, pageSize, last>>

LookupNext == LookupRanking

LookupSpec == LookupInit /\ [][LookupNext]_vars

\* the ranking records whose id reads as the given id, by position
RecordsWithId(teamId) ==
    {i \in 1..Len(rankingsRaw) :
        LET id == IF Field(rankingsRaw[i], "team_id") # Null
                  THEN rankingsRaw[i].team_id
                  ELSE Field(rankingsRaw[i], "id")
        IN teamId # Null /\ id # Null /\ ToStr(id) = ToStr(teamId)}

\* the ranking records whose name is the given name up to case
RecordsWithName(teamName) ==
    {i \in 1..Len(rankingsRaw) :
        /\ teamName.t = "str" /\ teamName.s # <<>>
        /\ Field(rankingsRaw[i], "team_name").t = "str"
        /\ Field(rankingsRaw[i], "team_name").s # <<>>
        /\ ToLowerCase(rankingsRaw[i].team_name.s) = ToLowerCase(teamName.s)}

LastOf(S) == CHOOSE i \in S : \A j \in S : j <= i

RankAndSos(t) == [rank |-> Field(t, "rank"), sos_score |-> Field(t, "sos_score")]

\* C11: getRankingForTeam returns the rank and sos_score of the record
\* indexed under the team id when there is one, otherwise those of the
\* record indexed under the name up to case, otherwise the record of nulls.
C11_LookupIdThenName ==
    phase = "lookedUp" =>
        result.payload =
            IF RecordsWithId(result.teamId) # {}
            THEN RankAndSos(rankingsRaw[LastOf(RecordsWithId(result.teamId))])
            ELSE IF RecordsWithName(result.teamName) # {}
            THEN RankAndSos(rankingsRaw[LastOf(RecordsWithName(result.teamName))])
            ELSE [rank |-> Null, sos_score |-> Null]

\* getRankingForTeam(null, "FOO") returns the rank 5 of the record named Foo
C11_Witness ==
    /\ phase = "lookedUp"
    /\ result.teamId = Null
    /\ result.teamName = Str(NameFOO)
    /\ RankFoo \in Range(rankingsRaw)
    /\ Len(rankingsRaw) >= 2
    /\ result.payload.rank = Num(5)

(***************************************************************************)
(* The fetches as a process: a view mounts, its load functions start,      *)
(* their responses arrive in any order, and the user clicks Refresh, Retry *)
(* or a team row in between.                                               *)
(***************************************************************************)
FetchViews == Views \cup {"chart"}

\* JSON values a response body parses to: an array, null, a number, or an
\* object that holds a value under one property
JArr(items) ==
    [kind |-> "array", items |-> items, prop |-> "", innerKind |-> "undefined",
     innerItems |-> <<>>]
JNull ==
    [kind |-> "null", items |-> <<>>, prop |-> "", innerKind |-> "undefined",
     innerItems |-> <<>>]
JNumber ==
    [kind |-> "number", items |-> <<>>, prop |-> "", innerKind |-> "undefined",
     innerItems |-> <<>>]
JObject(prop, innerKind, innerItems) ==
    [kind |-> "object", items |-> <<>>, prop |-> prop, innerKind |-> innerKind,
     innerItems |-> innerItems]

\* a 2xx response with a JSON body, a non-2xx response, a rejected fetch
OkResponse(json) ==
    [settled |-> "fulfilled", ok |-> TRUE, status |-> 200, statusText |-> "OK",
     json |-> json]
Unavailable ==
    [settled |-> "fulfilled", ok |-> FALSE, status |-> 503,
     statusText |-> "Service Unavailable", json |-> JNull]
Rejected ==
    [settled |-> "rejected", ok |-> FALSE, status |-> 0, statusText |-> "",
     json |-> JNull]

RosterOf(e) ==
    CASE e = "teams" -> TeamRoster
      [] e = "games" -> GameRoster
      [] e = "ranker" -> RankRoster

\* the property a wrapped collection sits under
WrapperProp(e) ==
    CASE e = "teams" -> "teams"
      [] e = "games" -> "games"
      [] e = "ranker" -> "raw_ranking"

\* the bodies an endpoint answers with: an array, empty or not, the same
\* rows under the wrapper property, null, and for the ranker a number and a
\* wrapper whose property is no array
Payloads(e) ==
    {JArr(<<>>), JArr(FirstOf(RosterOf(e), MaxFetched)), JNull,
     JObject(WrapperProp(e), "array", FirstOf(RosterOf(e), MaxFetched))}
    \cup (IF e = "ranker"
          THEN {JNumber, JObject(WrapperProp(e), "string", <<>>)}
          ELSE {})

Responses(e) == {OkResponse(j) : j \in Payloads(e)} \cup {Unavailable, Rejected}

\* what a load function's catch block receives: err.message in its parts
HttpError(label, res) ==
    [name |-> "Error", label |-> label, status |-> res.status,
     statusText |-> res.statusText]
FetchRejection ==
    [name |-> "TypeError", label |-> "Failed to fetch", status |-> 0,
     statusText |-> ""]
NullPropertyError ==
    [name |-> "TypeError", label |-> "Cannot read properties of null",
     status |-> 0, statusText |-> ""]

\* the collection refs a view declares
Holds(v) ==
    CASE v = "games" -> {"games", "teams"}
      [] v = "teams" -> {"teams", "games"}
      [] v = "conferences" -> {"teams", "ranker", "games"}
      [] v = "rankings" -> {"ranker", "teams", "games"}
      [] v = "ratings" -> {"ranker"}
      [] v = "chart" -> {"games", "ranker"}

\* the endpoints a load function fetches, in the order it reads them
Fetches(v, fn) ==
    CASE fn = "loadData" /\ v = "games" -> <<"games", "teams">>
      [] fn = "loadData" /\ v = "chart" -> <<"games", "ranker">>
      [] fn = "loadTeams" -> <<"teams">>
      [] fn = "loadRankings" -> <<"ranker">>
      [] fn \in {"loadGames", "loadGamesIfNeeded"} -> <<"games">>

\* the refs a load function reports through: loading and error,
\* gamesLoading and gamesError, or none
Surface(v, fn) ==
    CASE fn = "loadData" -> "error"
      [] fn = "loadTeams" -> IF v = "rankings" THEN "none" ELSE "error"
      [] fn = "loadRankings" -> IF v = "conferences" THEN "none" ELSE "error"
      [] fn = "loadGames" -> "none"
      [] fn = "loadGamesIfNeeded" -> "gamesError"

\* the text before ': status statusText' in the thrown message
Label(v, fn, e) ==
    CASE fn = "loadData" /\ e = "games" -> "Games API error"
      [] fn = "loadData" /\ e = "teams" -> "Teams API error"
      [] fn = "loadData" /\ e = "ranker" -> "Ranker API error"
      [] fn = "loadTeams" -> IF v = "teams" THEN "API error" ELSE "Teams API error"
      [] fn = "loadRankings" ->
            IF v = "conferences" THEN "Ranker API error" ELSE "API error"
      [] fn = "loadGames" -> "Games API error"
      [] fn = "loadGamesIfNeeded" ->
            IF v = "teams" THEN "API error" ELSE "Games API error"

\* Array.isArray(json) ? json : (json.prop || []) rather than
\* Array.isArray(json) ? json : []
Unwraps(v, fn, e) == e = "ranker" \/ (v = "rankings" /\ e \in {"teams", "games"})

\* what is called on mount and by the Refresh and Retry buttons
MountCalls(v) ==
    CASE v = "games" -> <<"loadData">>
      [] v = "teams" -> <<"loadTeams">>
      [] v = "conferences" -> <<"loadTeams", "loadRankings", "loadGamesIfNeeded">>
      [] v = "rankings" -> <<"loadRankings", "loadTeams", "loadGames">>
      [] v = "ratings" -> <<"loadRankings">>
      [] v = "chart" -> <<"loadData">>

RefreshCalls(v) ==
    CASE v = "games" -> <<"loadData">>
      [] v = "teams" -> <<"loadTeams">>
      [] v = "conferences" -> <<"loadTeams", "loadRankings", "loadGamesIfNeeded">>
      [] v = "rankings" -> <<"loadRankings", "loadGames", "loadTeams">>
      [] v = "ratings" -> <<"loadRankings">>
      [] v = "chart" -> <<"loadData">>

\* the header of the view has a Refresh button
HasRefreshButton(v) == v # "chart"

\* the calls that await their response form a bag: responses arrive in any
\* order, so the order the calls were made in decides nothing
\* the collection a view holds for an endpoint
Held(e) ==
    CASE e = "teams" -> teamsRaw
      [] e = "games" -> gamesRaw
      [] e = "ranker" -> rankingsRaw

\* the value of the collection ref of an endpoint
Value(e) == [kind |-> heldKind[e], items |-> Held(e)]

\* a call that begins: whether it belongs to the cycle that begins, and what
\* the collections it fetches held when it began
NewCall(fn, begins) ==
    [fn |-> fn, current |-> begins,
     before |-> [e \in Endpoints |->
                    IF e \in Range(Fetches(view, fn)) THEN Value(e)
                    ELSE [kind |-> "array", items |-> <<>>]]]

\* the calls of a load function that await their response
InFlightOf(fn) == {c \in BagToSet(inFlight) : c.fn = fn}

\* loadGamesIfNeeded returns at once when games are held
Skips(fn) == fn = "loadGamesIfNeeded" /\ Len(gamesRaw) > 0

\* the calls in flight, none of them of the cycle that begins
Earlier(calls) ==
    [c \in {[d EXCEPT !.current = FALSE] : d \in BagToSet(calls)} |->
        CopiesIn([c EXCEPT !.current = TRUE], calls) + CopiesIn(c, calls)]

\* the part of a load function that runs before its first await; the call
\* is marked as one of the cycle that begins, or as one outside the cycles
Started(st, fn) ==
    IF Skips(fn) THEN st
    ELSE [loading |-> IF Surface(view, fn) = "error" THEN TRUE ELSE st.loading,
          error |-> IF Surface(view, fn) = "error" THEN NoError ELSE st.error,
          gamesLoading |->
              IF Surface(view, fn) = "gamesError" THEN TRUE ELSE st.gamesLoading,
          gamesError |->
              IF Surface(view, fn) = "gamesError" THEN NoError ELSE st.gamesError,
          begins |-> st.begins,
          inFlight |->
              st.inFlight (+) SetToBag({NewCall(fn, st.begins)})]

RECURSIVE StartedAll(_, _)
StartedAll(st, fns) ==
    IF fns = <<>> THEN st ELSE StartedAll(Started(st, Head(fns)), Tail(fns))

\* a handler calls load functions one after the other; a mount or a click
\* on Refresh or Retry begins a fetch cycle
Calls(fns, kind) ==
    LET begins == kind # "open"
        earlier == IF begins THEN Earlier(inFlight) ELSE inFlight
        st == StartedAll([loading |-> loading, error |-> error,
                          gamesLoading |-> gamesLoading,
                          gamesError |-> gamesError, begins |-> begins,
                          inFlight |-> earlier], fns)
        issued == UNION {Range(Fetches(view, fns[k])) :
                            k \in {j \in 1..Len(fns) : ~Skips(fns[j])}}
    IN /\ BagCardinality(st.inFlight) <= MaxInFlight
       /\ loading' = st.loading
       /\ error' = st.error
       /\ gamesLoading' = st.gamesLoading
       /\ gamesError' = st.gamesError
       /\ inFlight' = st.inFlight
       /\ cycle' = IF begins THEN kind ELSE cycle
       /\ history' =
             IF begins
             THEN [e \in Endpoints |->
                      [origin |-> IF history[e].origin = "none" THEN "none"
                                  ELSE "earlier",
                       current |-> IF e \in issued THEN "pending"
                                   ELSE "unissued"]]
             ELSE history
       /\ UNCHANGED <<view, dataVars, filterVars, sortKey, sortDirection,
                      currentPage, pageSize, last, phase, result, heldKind>>

FetchInit ==
    /\ view \in FetchViews
    /\ teamsRaw = <<>>
    /\ gamesRaw = <<>>
    /\ rankingsRaw = <<>>
    /\ searchQuery = <<>>
    /\ selectedConference = ALL
    /\ selectedDate = <<>>
    /\ selectedTeamId = 0
    /\ sortKey = IF view \in Views THEN InitialSortKey(view) ELSE "none"
    /\ sortDirection = IF view \in Views THEN InitialSortDirection(view) ELSE "asc"
    /\ currentPage = 1
    /\ pageSize = InitialPageSize
    /\ last = NoHandler
    /\ FetchIdle
    /\ phase = "fetching"
    /\ result = <<>>

\* onMounted
Mount ==
    /\ phase = "fetching"
    /\ cycle = "none"
    /\ Calls(MountCalls(view), "mount")

\* the Refresh button of the header
Refresh ==
    /\ phase = "fetching"
    /\ HasRefreshButton(view)
    /\ cycle # "none"
    /\ Calls(RefreshCalls(view), "refresh")

\* the Retry button, rendered under v-else-if="error" after v-if="loading"
Retry ==
    /\ phase = "fetching"
    /\ ~loading
    /\ error # NoError
    /\ cycle # "none"
    /\ Calls(RefreshCalls(view), "refresh")

\* openTeamGames: a click on a row of the teams table, which is rendered
\* when the view neither loads nor shows an error (an open modal is closed
\* first; closing it touches no fetch)
OpenTeamGames ==
    /\ phase = "fetching"
    /\ view = "teams"
    /\ cycle # "none"
    /\ ~loading
    /\ error = NoError
    /\ Len(teamsRaw) > 0
    /\ Calls(<<"loadGamesIfNeeded">>, "open")

\* Array.isArray(json) ? json : [], or with the fallback json.prop || []:
\* the value assigned and whether reading json.prop throws
Unwrapped(v, fn, e, json) ==
    IF json.kind = "array"
    THEN [throws |-> FALSE, kind |-> "array", items |-> json.items]
    ELSE IF ~Unwraps(v, fn, e)
    THEN [throws |-> FALSE, kind |-> "array", items |-> <<>>]
    ELSE IF json.kind = "null"
    THEN [throws |-> TRUE, kind |-> "array", items |-> <<>>]
    ELSE IF json.kind = "object" /\ json.prop = WrapperProp(e)
            /\ json.innerKind # "undefined"
    THEN [throws |-> FALSE, kind |-> json.innerKind, items |-> json.innerItems]
    ELSE [throws |-> FALSE, kind |-> "array", items |-> <<>>]

\* what the awaits and the checks of res.ok throw: the rejection of a
\* fetch, else the error of the first response that is not ok
FirstFailure(v, fn, es, rs) ==
    IF \E k \in 1..Len(rs) : rs[k].settled = "rejected" THEN FetchRejection
    ELSE IF \E k \in 1..Len(rs) : ~rs[k].ok
    THEN LET k == CHOOSE k \in 1..Len(rs) :
                      ~rs[k].ok /\ \A j \in 1..(k - 1) : rs[j].ok
         IN HttpError(Label(v, fn, es[k]), rs[k])
    ELSE NoError

\* the assignments to the collection refs, in order, up to one that throws
RECURSIVE Assigned(_, _, _, _)
Assigned(st, fn, es, rs) ==
    IF es = <<>> THEN st
    ELSE LET u == Unwrapped(view, fn, Head(es), Head(rs).json)
         IN IF u.throws THEN [st EXCEPT !.thrown = NullPropertyError]
            ELSE Assigned([st EXCEPT !.data[Head(es)] = u.items,
                                     !.kinds[Head(es)] = u.kind,
                                     !.assigned = @ \cup {Head(es)}],
                          fn, Tail(es), Tail(rs))

ResponseSeqs(es) ==
    IF Len(es) = 1 THEN {<<r>> : r \in Responses(es[1])}
    ELSE {<<r1, r2>> : r1 \in Responses(es[1]), r2 \in Responses(es[2])}

\* how a fetch ended: the promise rejected, the status was not 2xx, or the
\* body had the shape the endpoint answers with (an array; for the ranker
\* also an object with an array under raw_ranking) or another shape
Outcome(e, res) ==
    IF res.settled = "rejected" THEN "rejected"
    ELSE IF ~res.ok THEN "status"
    ELSE IF res.json.kind = "array" THEN "ok"
    ELSE IF /\ e = "ranker"
            /\ res.json.kind = "object"
            /\ res.json.prop = "raw_ranking"
            /\ res.json.innerKind = "array"
    THEN "ok"
    ELSE "malformed"

\* the responses of a call arrive and the rest of the load function runs:
\* try, catch and finally
Complete(call) ==
    /\ phase = "fetching"
    /\ BagIn(call, inFlight)
    /\ LET es == Fetches(view, call.fn)
       IN \E rs \in ResponseSeqs(es) :
          LET failure == FirstFailure(view, call.fn, es, rs)
              st0 == [data |-> [e \in Endpoints |-> Held(e)],
                      kinds |-> heldKind, thrown |-> failure, assigned |-> {}]
              st == IF failure = NoError THEN Assigned(st0, call.fn, es, rs)
                    ELSE st0
              surface == Surface(view, call.fn)
          IN /\ teamsRaw' = st.data["teams"]
             /\ gamesRaw' = st.data["games"]
             /\ rankingsRaw' = st.data["ranker"]
             /\ heldKind' = st.kinds
             /\ error' = IF surface = "error" /\ st.thrown # NoError
                         THEN st.thrown ELSE error
             /\ loading' = IF surface = "error" THEN FALSE ELSE loading
             /\ gamesError' = IF surface = "gamesError" /\ st.thrown # NoError
                              THEN st.thrown ELSE gamesError
             /\ gamesLoading' = IF surface = "gamesError" THEN FALSE
                                ELSE gamesLoading
             /\ inFlight' = inFlight (-) SetToBag({call})
             /\ history' =
                   [e \in Endpoints |->
                       IF e \in Range(es)
                       THEN LET k == CHOOSE k \in 1..Len(es) : es[k] = e
                            IN [origin |->
                                    IF e \notin st.assigned THEN history[e].origin
                                    ELSE IF call.current THEN "current"
                                    ELSE "earlier",
                                current |->
                                    IF ~call.current THEN history[e].current
                                    ELSE Outcome(e, rs[k])]
                       ELSE history[e]]
    /\ UNCHANGED <<view, filterVars, sortKey, sortDirection, currentPage,
                   pageSize, last, phase, result, cycle>>

\* the response of some call arrives
Completion == \E call \in BagToSet(inFlight) : Complete(call)

FetchNext ==
    \/ Mount
    \/ Refresh
    \/ Retry
    \/ OpenTeamGames
    \/ Completion

FetchSpec == FetchInit /\ [][FetchNext]_vars


(***************************************************************************)
(* The claims about the fetches                                            *)
(***************************************************************************)

\* the fetch a cycle issued for an endpoint failed: the promise rejected or
\* the status was not 2xx
FailedInCycle(e) == history[e].current \in {"status", "rejected"}

\* C12: in a view that loads more than one endpoint, when within one load
\* the fetch of one endpoint fails and the fetch of another endpoint succeeds,
\* the collection of the endpoint that succeeded is replaced by its response
C12_Claimed ==
    \A e \in Holds(view) : \A f \in Holds(view) \ {e} :
        (history[e].current = "ok" /\ FailedInCycle(f))
            => history[e].origin = "current"


\* the call whose response arrives in this step
Completes(call) ==
    /\ BagIn(call, inFlight)
    /\ inFlight' = inFlight (-) SetToBag({call})

\* the step completes the call a cycle made for endpoint e, and its fetch
\* failed
FailsNow(call, e) ==
    /\ Completes(call)
    /\ call.current
    /\ e \in Range(Fetches(view, call.fn))
    /\ history[e].current = "pending"
    /\ FailedInCycle(e)'

\* a click on Refresh or Retry
ManualRetry == Refresh \/ Retry

\* C13: when a fetch fails (status not 2xx, or transport error) the
\* collection of its endpoint keeps exactly the value it had before the fetch
\* started, and a later manual retry issues the same fetch again
C13_Claimed ==
    [][/\ \A call \in BagToSet(inFlight) : \A e \in Endpoints :
             FailsNow(call, e) => Value(e)' = call.before[e]
       /\ \A e \in Endpoints :
             (FailedInCycle(e) /\ ManualRetry) => history'[e].current = "pending"
      ]_vars

\* the number of calls in flight that fetch from endpoint e
InFlightFor(e) ==
    BagCardinality([c \in {d \in BagToSet(inFlight) :
                              e \in Range(Fetches(view, d.fn))} |-> inFlight[c]])

\* C16: under any interleaving of mount, Refresh/Retry clicks, openTeamGames
\* clicks and fetch completions, a view has at most one fetch per endpoint
\* in flight
C16_Claimed == \A e \in Endpoints : InFlightFor(e) <= 1


\* an error state of the view holds an error, and the status and the reason
\* of the response when the fetch of e was answered with a status
Surfaced(e) ==
    \E err \in {error, gamesError} :
        /\ err # NoError
        /\ history[e].current = "status" =>
               /\ err.status = Unavailable.status
               /\ err.statusText = Unavailable.statusText

\* C14: every failed fetch, for every endpoint in every view, is surfaced:
\* after the failing load function completes, error or gamesError is
\* non-null and, for a non-2xx response, carries the status and the reason
C14_Claimed ==
    [][\A call \in BagToSet(inFlight) : \A e \in Endpoints :
           FailsNow(call, e) => Surfaced(e)']_vars

\* the step completes the call a cycle made for endpoint e; the response is
\* 2xx, its body does not have the shape the endpoint answers with, and no
\* other fetch of the call failed
MalformedNow(call, e) ==
    /\ Completes(call)
    /\ call.current
    /\ e \in Range(Fetches(view, call.fn))
    /\ history[e].current = "pending"
    /\ history'[e].current = "malformed"
    /\ \A f \in Range(Fetches(view, call.fn)) : ~FailedInCycle(f)'

\* a computed property that reads the collections throws: it calls forEach
\* or map on a value that is not an array
DerivedThrows == \E e \in Holds(view) : heldKind[e] # "array"

\* C15: a malformed payload is treated as an empty collection and never as a
\* failure: the collection is set to the empty array, no exception is raised
\* in the load function or in a derived computation, no error state is set
C15_Claimed ==
    [][\A call \in BagToSet(inFlight) : \A e \in Endpoints :
           MalformedNow(call, e) =>
               /\ Value(e)' = [kind |-> "array", items |-> <<>>]
               /\ ~DerivedThrows'
               /\ error' = error
               /\ gamesError' = gamesError]_vars


\* the fetches a click on Refresh issued have all succeeded, and no call
\* awaits a response
RefreshSucceeded ==
    /\ cycle = "refresh"
    /\ inFlight = EmptyBag
    /\ \A e \in Endpoints : history[e].current \in {"unissued", "ok"}
    /\ \E e \in Endpoints : history[e].current = "ok"

\* C17: after an explicit Refresh whose fetches all succeed, each of the
\* collections the view holds is the response of a fetch issued by that
\* Refresh, never data kept from an earlier cycle
C17_Claimed ==
    RefreshSucceeded => \A e \in Holds(view) : history[e].origin = "current"


\* the conference view's rows show every conference of the teams held, with
\* the number of its teams, and no rank anywhere
RowsWithoutRanks ==
    LET rows == ConferenceRows(teamsRaw, rankingsRaw, gamesRaw)
        withRank == TeamsWithRank(teamsRaw, rankingsRaw)
        MembersAt(conf) ==
            {k \in 1..Len(teamsRaw) : ConferenceKey(teamsRaw[k]) = conf}
    IN /\ {rows[i].conference : i \in 1..Len(rows)}
              = {ConferenceKey(teamsRaw[k]) : k \in 1..Len(teamsRaw)}
       /\ \A i, j \in 1..Len(rows) :
              rows[i].conference = rows[j].conference => i = j
       /\ \A i \in 1..Len(rows) :
              /\ rows[i].numTeams = Num(Cardinality(MembersAt(rows[i].conference)))
              /\ rows[i].avgRank = Null
       /\ \A k \in 1..Len(withRank) : withRank[k].rank = Null

\* in the conference view the cycle's teams fetch succeeded and its ranker
\* fetch failed
RankerFailedTeamsLoaded ==
    /\ view = "conferences"
    /\ history["teams"].current = "ok"
    /\ FailedInCycle("ranker")

\* no ranking is held from an earlier load
NoRankingsHeld == rankingsRaw = <<>> /\ heldKind["ranker"] = "array"

\* C18 as stated: in the conference view, when the ranker fetch fails while
\* the teams fetch succeeds, error stays null, conferenceRows has one row per
\* conference with the correct numTeams, and every avgRank and every team's
\* rank is null
C18_Claimed ==
    RankerFailedTeamsLoaded =>
        /\ error = NoError
        /\ ~DerivedThrows
        /\ RowsWithoutRanks

\* C18, amended: in the conference view the failure of the ranker fetch sets
\* no error state, and whenever the teams fetch succeeded, the ranker fetch
\* failed and no ranking is held from an earlier load, conferenceRows has one
\* row per conference with the correct numTeams and every avgRank and every
\* team's rank is null.  The rows are examined in the state a step leaves:
\* every state has a step, a click on Refresh or the arrival of a response.
C18_DegradesToNulls ==
    [][view = "conferences" =>
          /\ \A call \in BagToSet(inFlight) :
                 FailsNow(call, "ranker") =>
                     /\ error' = error
                     /\ gamesError' = gamesError
                     /\ loading' = loading
          /\ (RankerFailedTeamsLoaded /\ NoRankingsHeld) => RowsWithoutRanks
      ]_vars

C18_Witness ==
    /\ RankerFailedTeamsLoaded
    /\ NoRankingsHeld
    /\ Len(teamsRaw) > 0
    /\ error = NoError
    /\ ConferenceRows(teamsRaw, rankingsRaw, gamesRaw) # <<>>


(***************************************************************************)
(* The filter stage on its own: a collection and a setting of the filter   *)
(* inputs are drawn, the view's filter is applied, and applied again to    *)
(* its own result.                                                         *)
(***************************************************************************)
\* the view's filter under the current filter inputs, applied to rows
FilterStage(rows) ==
    CASE view = "games" ->
            FilteredGames(rows, teamsRaw, selectedDate, selectedConference,
                          selectedTeamId)
      [] view = "conferences" ->
            FilteredConferences(rows, searchQuery, selectedConference)
      [] OTHER -> FilteredTeams(rows, searchQuery, selectedConference)

FilterInit ==
    /\ view \in Views
    /\ teamsRaw \in CASE view \in {"teams", "conferences"} ->
                            {FirstOf(TeamRoster, k) : k \in 0..MaxFilterLen}
                      [] view = "games" -> {FullTeams}
                      [] OTHER -> {<<>>}
    /\ gamesRaw \in CASE view = "games" ->
                            {FirstOf(GameRoster, k) : k \in 0..MaxFilterLen}
                      [] view = "conferences" -> {FullGames}
                      [] OTHER -> {<<>>}
    /\ rankingsRaw \in CASE view \in {"rankings", "ratings"} ->
                               {FirstOf(RankRoster, k) : k \in 0..MaxFilterLen}
                         [] view = "conferences" -> {FullRankings}
                         [] OTHER -> {<<>>}
    /\ searchQuery \in IF view = "games" THEN {<<>>} ELSE Queries(view)
    /\ selectedConference \in {ALL, ConfX, ConfY, Independent}
    /\ selectedDate \in IF view = "games" THEN Dates ELSE {<<>>}
    /\ selectedTeamId \in IF view = "games" THEN {0, 1, 2} ELSE {0}
    /\ sortKey = InitialSortKey(view)
    /\ sortDirection = InitialSortDirection(view)
    /\ currentPage = 1
    /\ pageSize = InitialPageSize
    /\ last = NoHandler
    /\ FetchIdle
    /\ phase = "unfiltered"
    /\ result = <<>>

\* filteredGames / filteredTeams / filteredConferences is computed, and
\* computed again from its own result
ApplyFilter ==
    /\ phase = "unfiltered"
    /\ result' = [once |-> FilterStage(TableRows),
                  twice |-> FilterStage(FilterStage(TableRows))]
    /\ phase' = "filtered"
    /\ UNCHANGED <<fetchVars, view, dataVars, filterVars, sortKey, sortDirection,
                   currentPage, pageSize, last>>

FilterNext == ApplyFilter

FilterSpec == FilterInit /\ [][FilterNext]_vars

\* C19: for every view's filter stage and every setting of the filter
\* inputs, filtering is idempotent: the same predicate applied to the
\* filtered result yields the same records in the same order
C19_FilterIdempotent ==
    phase = "filtered" =>
        /\ result.once = FilteredRows
        /\ result.twice = result.once

\* the filter kept some records and dropped others
C19_Witness ==
    /\ phase = "filtered"
    /\ Len(result.once) >= 2
    /\ Len(result.once) < Len(TableRows)
    /\ result.twice = result.once


(***************************************************************************)
(* Chart view: the roll-up of points and games per team.                   *)
(***************************************************************************)
\* addGamePoints(teamId, points)
AddGamePoints(stats, teamId, points) ==
    IF IsNull(teamId) \/ IsNull(points) THEN stats
    ELSE LET s == IF MapHas(stats, teamId) THEN stats[teamId]
                  ELSE [points |-> 0, games |-> 0]
             n == ToNumber(points)
         IN MapSet(stats, teamId,
                   [points |-> s.points + (IF n.t = "num" THEN n.n ELSE 0),
                    games |-> s.games + 1])

\* teamGameStats of the chart view: team_id -> { points, games }
RECURSIVE ChartTeamGameStatsFrom(_, _)
ChartTeamGameStatsFrom(games, stats) ==
    IF games = <<>> THEN stats
    ELSE LET g == Head(games)
             afterHome ==
                 IF ~IsNull(HomeScore(g))
                 THEN AddGamePoints(stats, Field(g, "home_team_id"), HomeScore(g))
                 ELSE stats
             afterAway ==
                 IF ~IsNull(AwayScore(g))
                 THEN AddGamePoints(afterHome, Field(g, "away_team_id"),
                                    AwayScore(g))
                 ELSE afterHome
         IN ChartTeamGameStatsFrom(Tail(games), afterAway)

ChartTeamGameStats(games) == ChartTeamGameStatsFrom(games, EmptyMap)

\* top25ByRating: the rankings with _rating = Number(t.rating ?? 0), highest
\* rating first, cut to 25; sorted is the order the sort gave them
Top25ByRating(sorted) ==
    LET WithRating(t) ==
            [k \in DOMAIN t \cup {"_rating"} |->
                IF k = "_rating"
                THEN ToNumber(Coalesce(Field(t, "rating"), Num(0)))
                ELSE t[k]]
    IN [i \in 1..Min(25, Len(sorted)) |-> WithRating(sorted[i])]

\* top25WithPpg: each of the top 25 with its points, games and points per game
Top25WithPpg(top25, statsMap) ==
    [idx \in 1..Len(top25) |->
        LET t == top25[idx]
            s == IF MapHas(statsMap, Field(t, "team_id"))
                 THEN statsMap[Field(t, "team_id")]
                 ELSE [points |-> 0, games |-> 0]
        IN [team_id |-> Field(t, "team_id"),
            team_name |-> Field(t, "team_name"),
            conference |-> Field(t, "conference"),
            rating |-> t._rating,
            rating_rank |-> Num(idx),
            points |-> s.points,
            games |-> s.games,
            ppg |-> IF s.games > 0 THEN Div(s.points, s.games) ELSE Num(0)]]

ChartInit ==
    /\ view = "chart"
    /\ teamsRaw = <<>>
    /\ gamesRaw \in SeqsUpTo(AggGamePool, MaxGames)
    /\ rankingsRaw = FullRankings
    /\ searchQuery = <<>>
    /\ selectedConference = ALL
    /\ selectedDate = <<>>
    /\ selectedTeamId = 0
    /\ sortKey = "none"
    /\ sortDirection = "asc"
    /\ currentPage = 1
    /\ pageSize = InitialPageSize
    /\ last = NoHandler
    /\ FetchIdle
    /\ phase = "loaded"
    /\ result = <<>>

\* teamGameStats and top25WithPpg are computed
ChartStats ==
    /\ phase = "loaded"
    /\ \E sorted \in SortOutcomes("ratings", "rating", "desc", rankingsRaw) :
          result' = [teamStats |-> ChartTeamGameStats(gamesRaw),
                     top25 |-> Top25WithPpg(Top25ByRating(sorted),
                                            ChartTeamGameStats(gamesRaw))]
    /\ phase' = "charted"
    /\ UNCHANGED <<fetchVars, view, dataVars, filterVars, sortKey, sortDirection,
                   currentPage, pageSize, last>>

ChartNext == ChartStats

ChartSpec == ChartInit /\ [][ChartNext]_vars

\* C20: in the chart view teamGameStats is all-or-nothing per game record: a
\* game that lacks a team id or a score adds no points and no game to any
\* team, so each team's games and points are those of the complete games
C20_Claimed ==
    phase = "charted" =>
        \A id \in MentionedTeams :
            /\ GamesOfTeams({id}) =
                   IF id \in DOMAIN result.teamStats
                   THEN result.teamStats[id].games ELSE 0
            /\ PointsOfTeams({id}) =
                   IF id \in DOMAIN result.teamStats
                   THEN result.teamStats[id].points ELSE 0

(***************************************************************************)
(* The key-type policy of the sort stage.                                  *)
(***************************************************************************)
\* a is not behind b in ascending order: numbers by value, strings by code
\* units
ValueLeq(a, b) ==
    IF a.t = "str" THEN a.s = b.s \/ StrLess(a.s, b.s)
    ELSE a.t = "num" /\ b.t = "num" /\ NumCmp(a, b) <= 0

\* the sorted rows are in the order of val under the direction they were
\* sorted in
OrderedBy(val(_)) ==
    \A i \in 1..(Len(result.rows) - 1) :
        IF result.dir = "asc"
        THEN ValueLeq(val(result.rows[i]), val(result.rows[i + 1]))
        ELSE ValueLeq(val(result.rows[i + 1]), val(result.rows[i]))

\* Number(r[key] ?? 0) for a key of the allow-list, the lowercased
\* String(r[key] ?? '') for any other
MissingAsZero(r) ==
    IF result.key \in NumericSortKeys(view)
    THEN ToNumber(Coalesce(Field(r, result.key), Num(0)))
    ELSE Str(ToLowerCase(ToStr(Coalesce(Field(r, result.key), Str(<<>>)))))

\* the key under which each rankings view sorts by rank
RankKey(v) ==
    CASE v = "rankings" -> {"rank"}
      [] v = "ratings" -> {"ranking"}
      [] OTHER -> {}

\* the rank of a record of a rankings view, 9999 when it has none
RankOrLast(v, r) ==
    IF v = "ratings" /\ ~IsNull(Field(r, "ranking")) THEN Field(r, "ranking")
    ELSE IF ~IsNull(Field(r, "rank")) THEN Field(r, "rank")
    ELSE Num(9999)

\* as MissingAsZero, with a missing rank counted as 9999 under the rank key
MissingRankLast(r) ==
    IF result.key \in RankKey(view) THEN ToNumber(RankOrLast(view, r))
    ELSE MissingAsZero(r)

SortsByDate == view = "games" /\ result.key = "game_date"

\* C21 as claimed: the date sort of the games view aside (a special case of
\* its own), under a key of the view's numeric allow-list the sorted output
\* is in the order of the records' numbers, a missing value counting as 0;
\* under any other key it is in the order of the lowercased strings.
C21_Claimed == (phase = "sorted" /\ ~SortsByDate) => OrderedBy(MissingAsZero)

\* C21: the date sort of the games view aside, under a key of the view's
\* numeric allow-list the sorted output is in the order of the records'
\* numbers, a missing value counting as 0, except under the rank key of the two
\* rankings views, where a record without a rank counts as 9999; under any
\* other key it is in the order of the lowercased strings.
C21_KeyTypePolicy ==
    (phase = "sorted" /\ ~SortsByDate) => OrderedBy(MissingRankLast)

\* an ascending sort by rank moved a record without a rank behind a ranked one
C21_Witness ==
    /\ phase = "sorted"
    /\ result.key \in RankKey(view)
    /\ result.dir = "asc"
    /\ Len(result.rows) >= 2
    /\ result.rows # FilteredRows
    /\ IsNull(Field(result.rows[Len(result.rows)], "rank"))
    /\ IsNull(Field(result.rows[Len(result.rows)], "ranking"))
    /\ ~IsNull(Field(result.rows[1], "rank"))

(***************************************************************************)
(* The date sort of the games view.                                        *)
(***************************************************************************)
\* the timestamp of a game with a missing or unparseable date read as 0
TimeOrEpoch(g) ==
    LET time == GameTime(g)
    IN IF time.t = "nan" THEN Num(0) ELSE time

\* C22 as claimed: sorted by game_date, the games come out in chronological
\* order of their timestamps (non-decreasing for 'asc', non-increasing for
\* 'desc'), a game whose date is missing or unparseable being ordered as
\* timestamp 0, for every input.
C22_Claimed == (phase = "sorted" /\ SortsByDate) => OrderedBy(TimeOrEpoch)

(***************************************************************************)
(* Points per game.                                                        *)
(***************************************************************************)
\* C23 as claimed: a team's average points per game is its points divided by
\* its games and is null, never 0, when it has no game; here for the ppg of
\* the chart view's top25WithPpg.
C23_Claimed ==
    phase = "charted" =>
        \A i \in 1..Len(result.top25) :
            result.top25[i].ppg =
                IF result.top25[i].games = 0 THEN Null
                ELSE Div(result.top25[i].points, result.top25[i].games)

(***************************************************************************)
(* The number of pages.                                                    *)
(***************************************************************************)
\* k = max(1, ceil(count / size)): the least k >= 1 with k * size >= count
IsPageCount(k, count, size) ==
    /\ k >= 1
    /\ k * size >= count
    /\ k > 1 => (k - 1) * size < count

\* C24: totalPages = max(1, ceil(count / pageSize)) for the count of sorted
\* and filtered rows and the page size of every view, 1 when the count is 0,
\* and both forms of the expression, (count || 1) / pageSize and
\* count / pageSize || 1, give that value.
C24_TotalPages ==
    \A S \in SortedRows :
        /\ IsPageCount(totalPages, Len(S), pageSize)
        /\ Len(S) = 0 => totalPages = 1
        /\ \A v \in Views : TotalPagesOf(v, Len(S), pageSize) = totalPages

\* the one page of an empty table has been rendered under a page size above 1
C24_Witness ==
    /\ phase = "paging"
    /\ Len(FilteredRows) = 0
    /\ pageSize >= 2
    /\ totalPages = 1
    /\ result = <<<<>>>>

(***************************************************************************)
(* The conference roll-up over teams and rankings: conferenceRows with the *)
(* ranks joined in by teamsWithRank.                                       *)
(***************************************************************************)
\* longest ranking list of the roll-up checked on its own
MaxRankings == 2

\* a third member of X, a team whose conference is the empty string and one
\* listed under the name 'Independent'
TeamE == [team_id |-> Num(4), team_name |-> Str(<<69>>),
          conference |-> Str(ConfX)]
TeamEmptyConf == [team_id |-> Num(6), team_name |-> Str(<<70>>),
                  conference |-> Str(<<>>)]
TeamIndependent == [team_id |-> Num(7), team_name |-> Str(<<71>>),
                    conference |-> Str(Independent)]

RollupTeamPool == {TeamA, TeamB, TeamE, TeamC, TeamD, TeamEmptyConf,
                   TeamIndependent}

\* a second entry for team 1, and an entry for team 4
RankA3 == [team_id |-> Num(1), rank |-> Num(3)]
RankE == [id |-> Num(4), rank |-> Num(4)]

RollupRankPool == {RankA, RankB, RankC, RankA3, RankE}

RollupInit ==
    /\ view = "conferences"
    /\ teamsRaw \in DistinctSeqsUpTo(RollupTeamPool, MaxTeams)
    /\ gamesRaw = <<>>
    /\ rankingsRaw \in SeqsUpTo(RollupRankPool, MaxRankings)
    /\ searchQuery = <<>>
    /\ selectedConference = ALL
    /\ selectedDate = <<>>
    /\ selectedTeamId = 0
    /\ sortKey = InitialSortKey("conferences")
    /\ sortDirection = InitialSortDirection("conferences")
    /\ currentPage = 1
    /\ pageSize = InitialPageSize
    /\ last = NoHandler
    /\ FetchIdle
    /\ phase = "loaded"
    /\ result = <<>>

\* conferenceRows, totalTeams and totalConferences are computed
RollUp ==
    /\ phase = "loaded"
    /\ LET rows == ConferenceRows(teamsRaw, rankingsRaw, gamesRaw)
       IN result' = [rows |-> rows,
                     totalTeams |-> Len(teamsRaw),
                     totalConferences |-> Len(rows)]
    /\ phase' = "rolled up"
    /\ UNCHANGED <<fetchVars, view, dataVars, filterVars, sortKey, sortDirection,
                   currentPage, pageSize, last>>

RollupNext == RollUp

RollupSpec == RollupInit /\ [][RollupNext]_vars

\* the rank the rankings give a team: that of the last entry listed under the
\* team's id, null when there is none or it has no rank
JoinedRank(t) ==
    LET Listed(i) == Coalesce(Field(rankingsRaw[i], "team_id"),
                              Field(rankingsRaw[i], "id"))
        entries == {i \in 1..Len(rankingsRaw) :
                        /\ ~IsNull(Listed(i))
                        /\ Listed(i) = Field(t, "team_id")}
    IN IF entries = {} THEN Null
       ELSE Field(rankingsRaw[CHOOSE i \in entries :
                                  \A j \in entries : j <= i], "rank")

\* the positions in teamsRaw of the members of a conference, and of those
\* among them that have a rank
MemberIndices(conf) ==
    {j \in 1..Len(teamsRaw) : ConferenceKey(teamsRaw[j]) = conf}

RankedIndices(conf) ==
    {j \in MemberIndices(conf) : ~IsNull(JoinedRank(teamsRaw[j]))}

\* C25: the avgRank of a conference row is the arithmetic mean of the ranks
\* of exactly the members that have a rank, the members without one counting
\* neither in the sum nor in the count, and is null when no member has one.
C25_AvgRankOfRanked ==
    phase = "rolled up" =>
        \A i \in 1..Len(result.rows) :
            LET row == result.rows[i]
                ranked == RankedIndices(row.conference)
                sum == SumOver(ranked,
                               [j \in ranked |-> JoinedRank(teamsRaw[j]).n])
            IN IF ranked = {} THEN row.avgRank = Null
               ELSE /\ row.avgRank.t = "num"
                    /\ row.avgRank.n * Cardinality(ranked) = sum * row.avgRank.d

\* a conference of three members, two of them ranked 1 and 2 and one without
\* a rank, whose avgRank is 3/2
C25_Witness ==
    /\ phase = "rolled up"
    /\ \E i \in 1..Len(result.rows) :
          /\ result.rows[i].numTeams = Num(3)
          /\ Cardinality(RankedIndices(result.rows[i].conference)) = 2
          /\ result.rows[i].avgRank = Div(3, 2)

(***************************************************************************)
(* The page within the pages.                                              *)
(***************************************************************************)
\* C26 as claimed: in every table view 1 <= currentPage <= totalPages in
\* every reachable state, whatever goToPage calls, filter and page-size
\* changes, changeSort calls and loads or refreshes of the collection came
\* before.
C26_Claimed == currentPage >= 1 /\ currentPage <= totalPages

(***************************************************************************)
(* The loading flag.                                                       *)
(***************************************************************************)
\* the calls in flight of the load function that drives the view's loading
\* flag
PrimaryInFlight ==
    {c \in BagToSet(inFlight) : Surface(view, c.fn) = "error"}

\* C27 as claimed: loading is true whenever a fetch started by the view's
\* primary load function is in flight, also when the load was started again
\* before an earlier call completed, and false only when none is in flight.
C27_Claimed == loading <=> PrimaryInFlight # {}

(***************************************************************************)
(* Responses that arrive out of order.                                     *)
(***************************************************************************)
\* the response of a call arrives that was in flight when the current cycle
\* called the same load function again, after the later call has completed
\* with every one of its fetches, that for endpoint e among them, successful
OlderArrives(call, e) ==
    /\ Completes(call)
    /\ ~call.current
    /\ e \in Range(Fetches(view, call.fn))
    /\ \A f \in Range(Fetches(view, call.fn)) : history[f].current = "ok"

\* C28 as claimed: when two fetches for one endpoint are in flight together
\* and both succeed, the collection ends up holding the response of the
\* fetch issued last, whatever the order of arrival: the response of the
\* older fetch, arriving second, does not replace that of the newer one.
C28_Claimed ==
    [][\A call \in BagToSet(inFlight) : \A e \in Endpoints :
           OlderArrives(call, e) => Value(e)' = Value(e)]_vars

(***************************************************************************)
(* conferenceGameStats sums to zero.                                       *)
(***************************************************************************)
\* C29: conferenceGameStats is zero-sum: over all conferences the
\* totalMargin values add up to 0 and the games counts add up to twice the
\* number of complete games between two different known conferences.
C29_ZeroSum ==
    phase = "aggregated" =>
        LET confs == DOMAIN result.confStats
        IN /\ SumOver(confs, [c \in confs |-> result.confStats[c].totalMargin]) = 0
           /\ SumOver(confs, [c \in confs |-> result.confStats[c].games])
                  = 2 * Cardinality(CrossConferenceGames)

\* two games between X and Y, won 30-10 and 5-0 by X, among three teams: X
\* stands at +25 and Y at -25, with two games each
C29_Witness ==
    /\ phase = "aggregated"
    /\ Cardinality(CrossConferenceGames) = 2
    /\ DOMAIN result.confStats = {Str(ConfX), Str(ConfY)}
    /\ result.confStats[Str(ConfX)] = [totalMargin |-> 25, games |-> 2]
    /\ result.confStats[Str(ConfY)] = [totalMargin |-> -25, games |-> 2]

(***************************************************************************)
(* conferenceRows as a partition of the teams.                             *)
(***************************************************************************)
\* the row a team belongs in: that of its conference, 'Independent' when the
\* conference is missing or empty
RowNameOf(t) ==
    IF IsNull(Field(t, "conference")) \/ Field(t, "conference") = Str(<<>>)
    THEN Str(Independent)
    ELSE Field(t, "conference")

\* C30: conferenceRows partitions the teams: every team is counted in exactly
\* one row, that of its conference or the 'Independent' row when it has
\* none, so the numTeams of the rows add up to the number of teams
\* (totalTeams), the conference names of the rows are all different, and no
\* row has numTeams = 0.
C30_RowsPartitionTeams ==
    phase = "rolled up" =>
        LET rows == result.rows
            at == 1..Len(rows)
        IN /\ \A j \in 1..Len(teamsRaw) :
                 Cardinality({i \in at :
                     rows[i].conference = RowNameOf(teamsRaw[j])}) = 1
           /\ \A i \in at :
                 /\ rows[i].numTeams =
                        Num(Cardinality({j \in 1..Len(teamsRaw) :
                                RowNameOf(teamsRaw[j]) = rows[i].conference}))
                 /\ rows[i].numTeams.n > 0
           /\ SumOver(at, [i \in at |-> rows[i].numTeams.n]) = result.totalTeams
           /\ result.totalTeams = Len(teamsRaw)
           /\ \A i, k \in at : i # k => rows[i].conference # rows[k].conference
           /\ result.totalConferences = Len(rows)

\* a team without a conference, one with an empty conference and one listed
\* under 'Independent' share the one 'Independent' row
C30_Witness ==
    /\ phase = "rolled up"
    /\ Range(teamsRaw) = {TeamC, TeamEmptyConf, TeamIndependent}
    /\ Len(result.rows) = 1
    /\ result.rows[1].conference = Str(Independent)
    /\ result.rows[1].numTeams = Num(3)

====
